---- MODULE Spec2Model ----
(***************************************************************************)
(* Model of the jira-helper verification workflow: the POST /run handler   *)
(* of routes/verify.js driving the tracker through utils/jiraApi.js, with  *)
(* the script listing (GET /scripts), the verification history (GET        *)
(* /history/:issueKey) and the module cache the handlers share.            *)
(* Every await of a handler is one step; the code between two awaits is    *)
(* atomic (one JavaScript thread), and the tracker serves one request at a *)
(* time.                                                                   *)
(***************************************************************************)
EXTENDS Integers, Sequences, FiniteSets, TLC

\* ------------------------------------------------------------------ bounds

\* Requests accepted during one behaviour (the server itself has no limit):
\* with two handler instances, with one instance and every input, and with
\* one instance and the inputs of the reconciliation histories.
MaxRequests == 2
MaxRunRequests == 2
MaxSeqRequests == 3

\* Requests accepted in the behaviours that repeat a run on one issue.
MaxRepeatRequests == 3

\* Requests accepted in the behaviours on comments that resemble the tag.
MaxFailRequests == 2

\* In the behaviours of the script registry: requests to POST /run, edits
\* of script files and requests to GET /scripts.
MaxRegistryRequests == 2
MaxEdits == 1
MaxListings == 1

\* In the behaviours of the history route: requests to POST /run and to
\* GET /history.
MaxHistoryRuns == 1
MaxHistories == 2

\* The longest transition listing findCloseTransition is applied to on its own.
MaxListing == 3

\* In the behaviours of the settings routes: tracker requests started,
\* requests to POST /settings and requests to GET /settings.
MaxClientRequests == 2
MaxSaves == 1
MaxSettingsReads == 1

\* The rows of the longest CSV file uploaded to POST /bulk, and the
\* requests that upload it.
MaxRows == 2
MaxBulks == 1

\* ------------------------------------------------------------- JS strings

\* String.prototype.startsWith
StartsWith(s, p) == Len(p) <= Len(s) /\ SubSeq(s, 1, Len(p)) = p

\* String.prototype.endsWith
EndsWith(s, x) == Len(x) <= Len(s) /\ SubSeq(s, Len(s) - Len(x) + 1, Len(s)) = x

\* String.prototype.includes
Includes(s, k) == \E i \in 1..(Len(s) - Len(k) + 1) : SubSeq(s, i, i + Len(k) - 1) = k

UpperCase == <<"A","B","C","D","E","F","G","H","I","J","K","L","M",
               "N","O","P","Q","R","S","T","U","V","W","X","Y","Z">>
LowerCase == <<"a","b","c","d","e","f","g","h","i","j","k","l","m",
               "n","o","p","q","r","s","t","u","v","w","x","y","z">>

LowerChar(c) ==
    IF \E i \in 1..26 : UpperCase[i] = c
    THEN LowerCase[CHOOSE i \in 1..26 : UpperCase[i] = c]
    ELSE c

\* String.prototype.toLowerCase
RECURSIVE ToLowerCase(_)
ToLowerCase(s) ==
    IF Len(s) = 0 THEN s
    ELSE LowerChar(SubSeq(s, 1, 1)) \o ToLowerCase(SubSeq(s, 2, Len(s)))

\* ---------------------------------------------------------------- inputs

\* Handler instances that can be in flight at once (express serves requests
\* concurrently; two are enough for every interleaving of a pair).
Runs == {"r1", "r2"}

\* A request is served by the first free instance (the names carry no meaning).
RunOrder == <<"r1", "r2">>

\* Tracker requests of the settings behaviours that can be in flight at once.
Callers == {"c1", "c2"}

\* Issues the tracker holds.
IssueKeys == {"PROJ-1", "PROJ-2"}

\* What fs.readdir lists in the verification-scripts directory, in the
\* order the file system gives.
DirOrder == <<"sample-test.js", "notes.txt", "broken.js", "no-verify.js">>

\* path.join(VERIFICATION_SCRIPTS_DIR, `${scriptId}.js`), within the directory.
ScriptPath(id) == id \o ".js"

\* path.basename(file, '.js') of a file that ends with '.js'.
Basename(file) == SubSeq(file, 1, Len(file) - 3)

\* The verification-scripts directory as the server finds it: with the
\* shipped files, empty, holding nothing that loads, or not there to be read.
Directories ==
    { [enumerable |-> TRUE, names |-> DirOrder],
      [enumerable |-> TRUE, names |-> << >>],
      [enumerable |-> TRUE, names |-> <<"notes.txt", "broken.js">>],
      [enumerable |-> FALSE, names |-> << >>] }

\* The verification-scripts directory at start: per <id>.js file, what
\* requiring it gives (it loads or throws message; the module's exports:
\* name, description, whether verify is a function) and the file's revision.
ScriptDir ==
    [id \in {"sample-test", "broken", "no-verify"} |->
        CASE id = "sample-test" ->
               [loads |-> TRUE, message |-> "", hasVerify |-> TRUE,
                name |-> "Sample Test", description |-> "A sample verification script", rev |-> 1]
          [] id = "broken" ->
               [loads |-> FALSE, message |-> "Unexpected token", hasVerify |-> FALSE,
                name |-> "", description |-> "", rev |-> 1]
          [] id = "no-verify" ->
               [loads |-> TRUE, message |-> "", hasVerify |-> FALSE,
                name |-> "", description |-> "", rev |-> 1]]

\* What each file holds after it has been edited: a new sample test, the
\* broken script repaired, the script without verify cut short.
Revised ==
    [id \in DOMAIN ScriptDir |->
        CASE id = "sample-test" ->
               [loads |-> TRUE, message |-> "", hasVerify |-> TRUE,
                name |-> "Sample Test 2", description |-> "", rev |-> 2]
          [] id = "broken" ->
               [loads |-> TRUE, message |-> "", hasVerify |-> TRUE,
                name |-> "Repaired", description |-> "No longer broken", rev |-> 2]
          [] id = "no-verify" ->
               [loads |-> FALSE, message |-> "Unexpected end of input", hasVerify |-> FALSE,
                name |-> "", description |-> "", rev |-> 2]]

\* No entry in require.cache; no module bound to const script.
NotLoaded == [loads |-> FALSE, message |-> "", hasVerify |-> FALSE,
              name |-> "", description |-> "", rev |-> 0]

DefaultPrefix == "[Verification]"

\* commentPrefix values of req.body (the default when the field is left out).
Prefixes == {DefaultPrefix, "[QA]"}

\* req.body of POST /run: runs of the sample script on an existing issue
\* under either prefix, runs of the two broken scripts, and the requests
\* that name an absent issue (PROJ-9), an id with no file (absent) or
\* leave a field out ("").
RequestBodies ==
    [issueKey : IssueKeys, scriptId : {"sample-test"}, commentPrefix : Prefixes]
    \cup [issueKey : IssueKeys, scriptId : {"broken", "no-verify"}, commentPrefix : {DefaultPrefix}]
    \cup [issueKey : {"PROJ-9"}, scriptId : {"sample-test", "absent"}, commentPrefix : {DefaultPrefix}]
    \cup [issueKey : {"PROJ-1"}, scriptId : {"absent", ""}, commentPrefix : {DefaultPrefix}]
    \cup [issueKey : {""}, scriptId : {"sample-test"}, commentPrefix : {DefaultPrefix}]

\* What script.verify(issueKey, parameters) can do: resolve with a string,
\* reject with an Error, reject with a value that has no message (a string),
\* or reject with null/undefined.
VerifyBehaviours ==
    [t : {"return"}, v : {"ok", "OK", "Ok", "ok ", "", "success", "timeout"}]
    \cup [t : {"throwError"}, v : {"boom"}]
    \cup [t : {"throwString"}, v : {"boom"}]
    \cup [t : {"throwNull"}, v : {""}]

\* The inputs of the concurrent runs and of the long sequential histories:
\* the sample script on either issue, passing, failing or throwing.
CoreBodies == [issueKey : IssueKeys, scriptId : {"sample-test"}, commentPrefix : Prefixes]
CoreBehaviours ==
    [t : {"return"}, v : {"ok", "timeout"}] \cup [t : {"throwError"}, v : {"boom"}]

\* Tracker workflows: what GET /issue/<key>/transitions lists, in the
\* tracker's order, for an issue in a given status, and the status each
\* transition leads to.
Workflows ==
    [w \in {"simple", "review", "global"} |->
        CASE w = "simple" ->
               [st \in {"Open", "Closed"} |->
                  IF st = "Open"
                  THEN << [id |-> "11", name |-> "Start Progress", to |-> "Open"],
                          [id |-> "21", name |-> "Close Issue", to |-> "Closed"] >>
                  ELSE << [id |-> "31", name |-> "Reopen", to |-> "Open"] >>]
          [] w = "review" ->
               [st \in {"Open", "Closed"} |->
                  << [id |-> "11", name |-> "Start Progress", to |-> "Open"],
                     [id |-> "31", name |-> "Reopen", to |-> "Open"] >>]
          [] w = "global" ->
               [st \in {"Open", "Closed"} |->
                  << [id |-> "41", name |-> "Reclose - do not use", to |-> "Closed"],
                     [id |-> "51", name |-> "Mark as DONE", to |-> "Closed"] >>]]

\* The tracker at start: each issue's workflow and the comments it holds
\* (PROJ-2 carries a reporter's comment and the comment of an earlier failed
\* verification).
InitialWorkflow == [k \in IssueKeys |-> IF k = "PROJ-1" THEN "simple" ELSE "review"]

\* The same tracker with PROJ-1 in a project whose transitions are global
\* (listed in every status), and in one that has no closing transition.
GlobalWorkflow == [k \in IssueKeys |-> IF k = "PROJ-1" THEN "global" ELSE "review"]
ReviewWorkflow == [k \in IssueKeys |-> "review"]
InitialComments ==
    [k \in IssueKeys |->
        IF k = "PROJ-1" THEN << >>
        ELSE << [id |-> 1, body |-> "please fix"],
                [id |-> 2, body |-> "[Verification] timeout"] >>]

\* A tracker whose issues carry comments that resemble the tag: in another
\* case, with the tag inside the body, and two that start with it.
BusyComments ==
    [k \in IssueKeys |->
        IF k = "PROJ-1" THEN << [id |-> 1, body |-> "[qa] needs data"] >>
        ELSE << [id |-> 1, body |-> "[verification] draft"],
                [id |-> 2, body |-> "see [Verification] below"],
                [id |-> 3, body |-> "[Verification] timeout"],
                [id |-> 4, body |-> "please fix"],
                [id |-> 5, body |-> "[Verification] flaky"] >>]

\* Settings: the default of getSettings, or a saved configuration.
NoSettings == [jiraUrl |-> "", username |-> "", apiToken |-> "", configured |-> FALSE]
SavedSettings == [jiraUrl |-> "https://jira.example.com", username |-> "bot",
                  apiToken |-> "secret", configured |-> TRUE]

RECURSIVE Reverse(_)
Reverse(s) == IF Len(s) = 0 THEN s ELSE Reverse(SubSeq(s, 2, Len(s))) \o SubSeq(s, 1, 1)

\* What every ciphertext of CryptoJS.AES.encrypt(text, passphrase).toString()
\* begins with (the base64 of "Salted__").
CipherMark == "U2FsdGVkX1"

\* encrypt: the ciphertext of a text under ENCRYPTION_KEY (the cipher is
\* stood for by a reversible scrambling behind the mark of a ciphertext).
encrypt(text) == CipherMark \o Reverse(text)

\* decrypt: the text of a ciphertext under the same key; anything that is
\* not a ciphertext decrypts to the empty string.
decrypt(encryptedText) ==
    IF StartsWith(encryptedText, CipherMark)
    THEN Reverse(SubSeq(encryptedText, Len(CipherMark) + 1, Len(encryptedText)))
    ELSE ""

\* saveSettings: what is written to config/settings.json for the settings given.
SettingsToSave(st) == IF st.apiToken # "" THEN [st EXCEPT !.apiToken = encrypt(@)] ELSE st

\* getSettings: the settings read back from what config/settings.json holds
\* (a missing file reads as the defaults, NoSettings).
getSettings(file) == IF file.apiToken # "" THEN [file EXCEPT !.apiToken = decrypt(@)] ELSE file

\* ----------------------------------------------------------------- state

VARIABLES
    settings,            \* config/settings.json: what the file holds (NoSettings: no file)
    initialized,         \* jiraApi.initialized
    baseURL,             \* jiraApi.baseURL ("" for null)
    auth,                \* jiraApi.auth (empty username and password for null)
    comments,            \* tracker: issue key -> its comments, in listing order
    status,              \* tracker: issue key -> its workflow status
    workflow,            \* tracker: issue key -> the workflow of its project
    dir,                 \* verification-scripts: whether fs.readdir succeeds and the names it lists
    files,               \* verification-scripts: script id -> what its file holds
    cache,               \* require.cache: script id -> the module loaded (NotLoaded: no entry)
    script,              \* handler: const script, the module require returned
    lpc,                 \* GET /scripts: where the listing is suspended
    scriptsRes,          \* GET /scripts: the response sent last
    historyReq,          \* GET /history/:issueKey: issueKey and commentPrefix of the pending request
    historyRes,          \* GET /history/:issueKey: the response sent last
    historyCalls,        \* history: tracker calls GET /history has issued
    pc,                  \* handler: where each run is suspended
    req,                 \* handler: issueKey, scriptId, commentPrefix of req.body
    verificationResult,  \* handler: let verificationResult
    transitions,         \* findCloseTransition: const transitions, the listing received
    closeTransition,     \* handler: const closeTransition (name "" for null)
    existingComment,     \* handler: const existingComment (id 0 for undefined)
    res,                 \* handler: the response sent (status 0: none yet)
    calls,               \* history: tracker calls each run has issued, with the error each ended in
    verifyCalls,         \* history: how often each run invoked script.verify
    outcome,             \* history: what loading and executing the check did in each run
    runsOn,              \* history: per issue, the requests accepted for it
    seen,                \* history: per issue, the (prefix, resolution) pairs of the runs that responded
    overlapped,          \* history: per issue, whether two runs on it were ever in flight together
    started,             \* history: requests accepted so far
    before,              \* history: per run, its issue when the request arrived and the run before it
    everLoaded,          \* history: the (id, revision, by) of every module a require returned
    edits,               \* history: edits of script files so far
    listings,            \* history: requests to GET /scripts so far
    histories,           \* history: requests to GET /history so far
    cpc,                 \* makeRequest: where each tracker request of the settings behaviours is suspended
    got,                 \* initialize: const settings, what getSettings returned to each request
    sent,                \* history: the url and auth each request handed to axios (NoSent: none)
    cerr,                \* history: the message of the Error each request threw
    since,               \* history: per request, the settings saves that had completed when it started
    requests,            \* history: tracker requests started in the settings behaviours
    spc,                 \* POST /settings: where the handler is suspended
    saveBody,            \* POST /settings: const settings, the object handed to saveSettings
    saveRes,             \* POST /settings: the response sent last
    written,             \* history: the settings objects saveSettings has written, in order
    completed,           \* history: how many POST /settings have answered with success
    saves,               \* history: requests to POST /settings so far
    settingsRes,         \* GET /settings: the response sent last
    reads,               \* history: requests to GET /settings so far
    bpc,                 \* POST /bulk: where the handler is suspended
    upload,              \* POST /bulk: req.file (its rows) and req.body.templateId of the client's upload
    template,            \* POST /bulk: let template
    processed,           \* POST /bulk: const processed, what processIssueCSVData returned
    cursor,              \* POST /bulk: the index in processed.data of the row of the for loop
    results,             \* POST /bulk: const results
    errors,              \* POST /bulk: const errors
    bulkRes,             \* POST /bulk: the response sent last
    submitted,           \* history: the createIssue calls of the request, with the error each ended in
    bulks                \* history: requests to POST /bulk so far

trackerVars == <<comments, status, workflow>>
clientVars  == <<settings, initialized, baseURL, auth>>
localVars   == <<verificationResult, transitions, closeTransition, existingComment>>
histVars    == <<seen, overlapped, runsOn, started>>
registryVars == <<dir, files, cache, everLoaded>>
settingsVars == <<cpc, got, sent, cerr, since, requests, spc, saveBody, saveRes, written,
                  completed, saves, settingsRes, reads>>
bulkVars    == <<bpc, upload, template, processed, cursor, results, errors, bulkRes,
                 submitted, bulks>>
routeVars   == <<lpc, scriptsRes, historyReq, historyRes, historyCalls, edits, listings, histories,
                 settingsVars, bulkVars>>
restVars    == <<registryVars, script, routeVars, before>>
runVars     == <<pc, req, script, localVars, res, calls, verifyCalls, outcome, histVars, before>>
vars == <<settings, initialized, baseURL, auth, comments, status, workflow, dir, files, cache, script,
          lpc, scriptsRes, historyReq, historyRes, historyCalls, pc, req,
          verificationResult, transitions, closeTransition, existingComment, res,
          calls, verifyCalls, outcome, seen, overlapped, runsOn, started,
          before, everLoaded, edits, listings, histories, settingsVars, bulkVars>>

NoAuth == [username |-> "", password |-> ""]
NoSent == [url |-> "", username |-> "", password |-> ""]
NoUpload == [file |-> FALSE, rows |-> << >>, templateId |-> ""]
NoTemplate == [id |-> "", name |-> "", issueType |-> "", summary |-> "", description |-> "",
               labels |-> << >>, priority |-> "", project |-> "", assignee |-> ""]
NoProcessed == [data |-> << >>, errors |-> << >>, valid |-> TRUE]
NoTransition == [id |-> "", name |-> "", to |-> ""]
NoComment == [id |-> 0, body |-> ""]
NoResponse == [status |-> 0]
NoRequest == [issueKey |-> "", scriptId |-> "", commentPrefix |-> ""]
NoOutcome == [t |-> "none", v |-> ""]
NoHistoryReq == [issueKey |-> "", commentPrefix |-> ""]
NoBefore == [comments |-> << >>, status |-> "", req |-> NoRequest, res |-> NoResponse,
             transitions |-> << >>]

\* The server has started and no request has arrived; the settings file is
\* one of those given, the tracker's issues carry one of the given comment
\* listings and are in one of the given workflow assignments, and the
\* scripts directory is one of those given; a client is about to send one of
\* the uploads given to POST /bulk.
InitFrom(settingsFiles, trackers, workflows, directories, uploads) ==
    /\ settings \in settingsFiles
    /\ initialized = FALSE
    /\ baseURL = ""
    /\ auth = NoAuth
    /\ comments \in trackers
    /\ workflow \in workflows
    /\ dir \in directories
    /\ files = ScriptDir
    /\ cache = [id \in DOMAIN ScriptDir |-> NotLoaded]
    /\ script = [r \in Runs |-> NotLoaded]
    /\ lpc = "idle"
    /\ scriptsRes = NoResponse
    /\ historyReq = NoHistoryReq
    /\ historyRes = NoResponse
    /\ historyCalls = << >>
    /\ before = [r \in Runs |-> NoBefore]
    /\ everLoaded = {}
    /\ edits = 0
    /\ listings = 0
    /\ histories = 0
    /\ status = [k \in IssueKeys |-> "Open"]
    /\ pc = [r \in Runs |-> "idle"]
    /\ req = [r \in Runs |-> NoRequest]
    /\ verificationResult = [r \in Runs |-> ""]
    /\ transitions = [r \in Runs |-> << >>]
    /\ closeTransition = [r \in Runs |-> NoTransition]
    /\ existingComment = [r \in Runs |-> NoComment]
    /\ res = [r \in Runs |-> NoResponse]
    /\ calls = [r \in Runs |-> << >>]
    /\ verifyCalls = [r \in Runs |-> 0]
    /\ outcome = [r \in Runs |-> NoOutcome]
    /\ runsOn = [k \in IssueKeys |-> 0]
    /\ seen = [k \in IssueKeys |-> {}]
    /\ overlapped = [k \in IssueKeys |-> FALSE]
    /\ started = 0
    /\ cpc = [c \in Callers |-> "idle"]
    /\ got = [c \in Callers |-> NoSettings]
    /\ sent = [c \in Callers |-> NoSent]
    /\ cerr = [c \in Callers |-> ""]
    /\ since = [c \in Callers |-> 0]
    /\ requests = 0
    /\ spc = "idle"
    /\ saveBody = NoSettings
    /\ saveRes = NoResponse
    /\ written = << >>
    /\ completed = 0
    /\ saves = 0
    /\ settingsRes = NoResponse
    /\ reads = 0
    /\ bpc = "idle"
    /\ upload \in uploads
    /\ template = NoTemplate
    /\ processed = NoProcessed
    /\ cursor = 0
    /\ results = << >>
    /\ errors = << >>
    /\ bulkRes = NoResponse
    /\ submitted = << >>
    /\ bulks = 0

\* The same from a settings file that is missing or saved, and the tracker's
\* initial comments.
InitIn(workflows, directories) ==
    InitFrom({NoSettings, SettingsToSave(SavedSettings)}, {InitialComments},
             workflows, directories, {NoUpload})

Init == InitIn({InitialWorkflow}, {[enumerable |-> TRUE, names |-> DirOrder]})

\* -------------------------------------------------------- tracker client

\* Mutant: settings with any of the three fields pass.
Configured_AnyField(st) == st.jiraUrl # "" \/ st.username # "" \/ st.apiToken # ""

\* JiraAPI.initialize's test of the settings it read.
Configured(st) == st.jiraUrl # "" /\ st.username # "" /\ st.apiToken # ""

\* makeRequest gets past its lazy initialisation.
ClientReady == initialized \/ Configured(getSettings(settings))

\* jiraUrl.replace(/\/$/, '')
StripSlash(url) == IF EndsWith(url, "/") THEN SubSeq(url, 1, Len(url) - 1) ELSE url

\* What JiraAPI.initialize leaves in the client for the settings it read.
InitializedWith(st) ==
    /\ baseURL' = StripSlash(st.jiraUrl)
    /\ auth' = [username |-> st.username, password |-> st.apiToken]
    /\ initialized' = TRUE

\* The lazy initialisation of a makeRequest whose reading of the settings
\* no other step comes between.
LazyInitialize ==
    IF ~initialized /\ Configured(getSettings(settings))
    THEN InitializedWith(getSettings(settings))
    ELSE UNCHANGED <<initialized, baseURL, auth>>

NotConfiguredMessage == "Jira connection not configured. Please configure settings first."

\* Mutant: the tracker answers for an issue it does not hold.
RequestError_AnyIssue(k, net) ==
    IF ~ClientReady THEN NotConfiguredMessage
    ELSE IF ~net THEN "Network Error"
    ELSE ""

\* The message of the Error makeRequest throws for a request on issue k
\* ("" when the request succeeds); net: the HTTP exchange itself succeeds.
RequestError(k, net) ==
    IF ~ClientReady THEN NotConfiguredMessage
    ELSE IF ~net THEN "Network Error"
    ELSE IF k \notin IssueKeys THEN "Issue Does Not Exist"
    ELSE ""

\* What a makeRequest leaves in the client and in the run's call history.
MakeRequest(r, call) ==
    /\ LazyInitialize
    /\ settings' = settings
    /\ calls' = [calls EXCEPT ![r] = Append(@, call)]

\* One makeRequest: the method of JiraAPI, its arguments and the message of
\* the error it threw ("" when it returned).
Call(op, k, transitionId, commentId, body, error) ==
    [op |-> op, key |-> k, transitionId |-> transitionId,
     commentId |-> commentId, body |-> body, error |-> error]

closeKeywords == {"close", "resolve", "done", "complete", "finish"}

\* The test of findCloseTransition's loop body.
IsCloseName(name) == \E keyword \in closeKeywords : Includes(ToLowerCase(name), keyword)

\* Mutant: the first listed transition is taken without the keyword test.
FindCloseTransition_FirstListed(listing) ==
    IF Len(listing) > 0 THEN listing[1] ELSE NoTransition

\* Mutant: the first listed transition is the fallback when no name matches.
FindCloseTransition_Fallback(listing) ==
    IF \E i \in 1..Len(listing) : IsCloseName(listing[i].name)
    THEN listing[CHOOSE i \in 1..Len(listing) :
                    /\ IsCloseName(listing[i].name)
                    /\ \A j \in 1..(i - 1) : ~IsCloseName(listing[j].name)]
    ELSE IF Len(listing) > 0 THEN listing[1] ELSE NoTransition

\* Mutant: the name is searched as the tracker spells it.
FindCloseFrom_CaseSensitive(listing, i) ==
    IF \E j \in i..Len(listing), keyword \in closeKeywords : Includes(listing[j].name, keyword)
    THEN listing[CHOOSE j \in i..Len(listing) :
                    /\ \E keyword \in closeKeywords : Includes(listing[j].name, keyword)
                    /\ \A h \in i..(j - 1) :
                          ~\E keyword \in closeKeywords : Includes(listing[h].name, keyword)]
    ELSE NoTransition

\* The for loop of findCloseTransition from transition i on: the first
\* transition whose name passes the test is returned, null after the last.
RECURSIVE FindCloseFrom(_, _)
FindCloseFrom(listing, i) ==
    IF i > Len(listing) THEN NoTransition
    ELSE IF IsCloseName(listing[i].name) THEN listing[i]
    ELSE FindCloseFrom(listing, i + 1)

\* findCloseTransition on a listing: the first match, or null.
FindCloseTransition(listing) == FindCloseFrom(listing, 1)

\* Mutant: the lookup never finds the earlier comment.
FindExisting_Never(listing, prefix) == NoComment

\* Mutant: the lookup compares the prefix without regard to case.
FindExisting_AnyCase(listing, prefix) ==
    IF \E i \in 1..Len(listing) : StartsWith(ToLowerCase(listing[i].body), ToLowerCase(prefix))
    THEN listing[CHOOSE i \in 1..Len(listing) :
                    /\ StartsWith(ToLowerCase(listing[i].body), ToLowerCase(prefix))
                    /\ \A j \in 1..(i - 1) :
                          ~StartsWith(ToLowerCase(listing[j].body), ToLowerCase(prefix))]
    ELSE NoComment

\* Mutant: the lookup takes the last comment that starts with the prefix.
FindExisting_Last(listing, prefix) ==
    IF \E i \in 1..Len(listing) : StartsWith(listing[i].body, prefix)
    THEN listing[CHOOSE i \in 1..Len(listing) :
                    /\ StartsWith(listing[i].body, prefix)
                    /\ \A j \in (i + 1)..Len(listing) : ~StartsWith(listing[j].body, prefix)]
    ELSE NoComment

\* comments.comments.find(comment => comment.body.startsWith(commentPrefix))
FindExisting(listing, prefix) ==
    IF \E i \in 1..Len(listing) : StartsWith(listing[i].body, prefix)
    THEN listing[CHOOSE i \in 1..Len(listing) :
                    /\ StartsWith(listing[i].body, prefix)
                    /\ \A j \in 1..(i - 1) : ~StartsWith(listing[j].body, prefix)]
    ELSE NoComment

\* GET /issue/<key>/transitions on the tracker.
TrackerTransitions(k) == Workflows[workflow[k]][status[k]]

\* Mutant: the comment is posted to every issue.
TrackerAddComment_EveryIssue(k, body) ==
    [j \in IssueKeys |-> Append(comments[j], [id |-> Len(comments[j]) + 1, body |-> body])]

\* POST /issue/<key>/comment on the tracker.
TrackerAddComment(k, body) ==
    [comments EXCEPT ![k] = Append(@, [id |-> Len(@) + 1, body |-> body])]

\* Mutant: the update arrives as a new comment.
TrackerUpdateComment_AsNew(k, id, body) ==
    [comments EXCEPT ![k] = Append(@, [id |-> Len(@) + 1, body |-> body])]

\* PUT /issue/<key>/comment/<id> on the tracker.
TrackerUpdateComment(k, id, body) ==
    [comments EXCEPT ![k] = [i \in 1..Len(@) |->
        IF @[i].id = id THEN [@[i] EXCEPT !.body = body] ELSE @[i]]]

\* ----------------------------------------------------------- the handler

\* Mutant: the result is compared without regard to case.
isSuccess_AnyCase(v) == ToLowerCase(v) = "ok"

isSuccess(v) == v = "ok" \/ v = "OK"

PassClosedText(prefix) == prefix \o " Verification passed. Issue auto-closed."
PassNoTransitionText(prefix) == prefix \o " Verification passed, but no close transition available."
commentText(prefix, v) == prefix \o " " \o v

\* The variant of the spec's ResolutionResult a 200 response stands for.
ResolutionOf(response) ==
    IF ~response.success THEN "UpdateFailed"
    ELSE IF response.action = "closed" THEN "Closed"
    ELSE IF response.action = "verified" THEN "VerifiedNoUpdate"
    ELSE IF isSuccess(response.verificationResult) THEN "CommentedPassNoTransition"
    ELSE "CommentedFail"

\* Mutant: a response that reports a failed tracker call is held back and
\* the run stays where it is, to issue the call again.
Send_RetryOnFailure(r, response) ==
    IF response.status = 200 /\ (~response.success \/ response.action = "verified")
    THEN UNCHANGED <<res, pc, histVars>>
    ELSE /\ res' = [res EXCEPT ![r] = response]
         /\ pc' = [pc EXCEPT ![r] = "done"]
         /\ seen' = IF response.status = 200
                    THEN [seen EXCEPT ![req[r].issueKey] = @ \cup
                             {[prefix |-> req[r].commentPrefix,
                               resolution |-> ResolutionOf(response)]}]
                    ELSE seen
         /\ UNCHANGED <<overlapped, runsOn, started>>

\* res.json / res.status(...).json: the response is sent and the run ends.
Send(r, response) ==
    /\ res' = [res EXCEPT ![r] = response]
    /\ pc' = [pc EXCEPT ![r] = "done"]
    /\ seen' = IF response.status = 200
               THEN [seen EXCEPT ![req[r].issueKey] = @ \cup
                        {[prefix |-> req[r].commentPrefix,
                          resolution |-> ResolutionOf(response)]}]
               ELSE seen
    /\ UNCHANGED <<overlapped, runsOn, started>>

InFlight(r) == pc[r] \notin {"idle", "done"}

\* The instance that serves the next request.
FirstFree(r) ==
    \E i \in 1..Len(RunOrder) :
        /\ RunOrder[i] = r
        /\ ~InFlight(r)
        /\ \A j \in 1..(i - 1) : InFlight(RunOrder[j])

\* POST /run arrives: destructuring and the 400 test, then getIssue is issued.
\* (remember: the behaviours keep the history the claims about successive
\* runs and about reloading look back at.)
Request(r, body, limit, remember) ==
    /\ FirstFree(r)
    /\ started < limit
    /\ req' = [req EXCEPT ![r] = body]
    /\ verificationResult' = [verificationResult EXCEPT ![r] = ""]
    /\ transitions' = [transitions EXCEPT ![r] = << >>]
    /\ closeTransition' = [closeTransition EXCEPT ![r] = NoTransition]
    /\ existingComment' = [existingComment EXCEPT ![r] = NoComment]
    /\ calls' = [calls EXCEPT ![r] = << >>]
    /\ verifyCalls' = [verifyCalls EXCEPT ![r] = 0]
    /\ outcome' = [outcome EXCEPT ![r] = NoOutcome]
    /\ started' = started + 1
    /\ script' = [script EXCEPT ![r] = NotLoaded]
    /\ before' = IF ~remember THEN before ELSE [before EXCEPT ![r] =
                    [comments |-> IF body.issueKey \in IssueKeys THEN comments[body.issueKey] ELSE << >>,
                     status |-> IF body.issueKey \in IssueKeys THEN status[body.issueKey] ELSE "",
                     req |-> req[r], res |-> res[r], transitions |-> transitions[r]]]
    /\ UNCHANGED <<registryVars, routeVars>>
    /\ IF body.issueKey = "" \/ body.scriptId = ""
       THEN /\ res' = [res EXCEPT ![r] =
                        [status |-> 400, error |-> "Issue key and script ID are required"]]
            /\ pc' = [pc EXCEPT ![r] = "done"]
            /\ UNCHANGED <<overlapped, runsOn>>
       ELSE /\ res' = [res EXCEPT ![r] = NoResponse]
            /\ pc' = [pc EXCEPT ![r] = "getIssue"]
            /\ overlapped' = [k \in IssueKeys |->
                    \/ overlapped[k]
                    \/ k = body.issueKey /\ \E o \in Runs \ {r} : InFlight(o) /\ req[o].issueKey = k]
            /\ runsOn' = [k \in IssueKeys |-> IF k = body.issueKey THEN runsOn[k] + 1 ELSE runsOn[k]]
    /\ UNCHANGED <<trackerVars, clientVars, seen>>

\* Mutant: the error of the lookup is passed on to the outer catch.
IssueNotFound_Rethrown(error) ==
    [status |-> 500, error |-> "Failed to run verification: " \o error]

\* The response of the catch around getIssue.
IssueNotFound(error) == [status |-> 404, error |-> "Issue not found: " \o error]

\* await jiraApi.getIssue(issueKey) returns or throws.
GetIssue(r, net) ==
    /\ UNCHANGED restVars
    /\ pc[r] = "getIssue"
    /\ LET error == RequestError(req[r].issueKey, net) IN
       /\ MakeRequest(r, Call("getIssue", req[r].issueKey, "", 0, "", error))
       /\ IF error = ""
          THEN /\ pc' = [pc EXCEPT ![r] = "access"]
               /\ UNCHANGED <<res, histVars>>
          ELSE Send(r, IssueNotFound(error))
    /\ UNCHANGED <<trackerVars, req, localVars, verifyCalls, outcome>>

\* Mutant: every result is reconciled with the comments, a Pass as well.
Branch_AlwaysReconcile(v) == "getComments"

\* After verificationResult is set the handler issues the first tracker
\* request of its branch at once: findCloseTransition or getComments.
Branch(v) == IF isSuccess(v) THEN "getTransitions" ELSE "getComments"

\* Mutant: the entry of require.cache is left in place.
ClearCache_Kept(c, id) == c

\* fs.access(scriptPath) succeeds.
Exists(id) == \E i \in 1..Len(dir.names) : dir.names[i] = ScriptPath(id)

\* delete require.cache[require.resolve(scriptPath)]
ClearCache(c, id) == [c EXCEPT ![id] = NotLoaded]

\* require(scriptPath) under cache c: the cached module when there is an
\* entry, else what the file holds now (loads FALSE: evaluating it throws).
Require(c, id) == IF c[id] # NotLoaded THEN c[id] ELSE files[id]

\* require.cache after require(scriptPath): a module that loaded is entered,
\* one that threw leaves no entry.
Cached(c, id) ==
    IF c[id] = NotLoaded /\ files[id].loads THEN [c EXCEPT ![id] = files[id]] ELSE c

\* Mutant: verify is called without the test.
HasVerify_Assumed(m) == TRUE

\* typeof script.verify === 'function'
HasVerify(m) == m.hasVerify

NoVerifyText == "Script error: Script does not export a verify function"

\* Mutant: verify is invoked and its promise is taken for the result; the
\* handler goes on while the check executes.
AwaitVerify_Missing(r) ==
    /\ verifyCalls' = [verifyCalls EXCEPT ![r] = @ + 1]
    /\ verificationResult' = [verificationResult EXCEPT ![r] = "[object Promise]"]
    /\ pc' = [pc EXCEPT ![r] = Branch("[object Promise]")]
    /\ UNCHANGED outcome

\* verificationResult = await script.verify(issueKey, parameters): verify is
\* invoked and the handler is suspended until it settles.
AwaitVerify(r) ==
    /\ verifyCalls' = [verifyCalls EXCEPT ![r] = @ + 1]
    /\ pc' = [pc EXCEPT ![r] = "verify"]
    /\ UNCHANGED <<verificationResult, outcome>>

\* await fs.access(scriptPath) returns or throws; then the cache entry is
\* dropped, the script is required and script.verify is invoked.
Access(r, remember) ==
    /\ pc[r] = "access"
    /\ UNCHANGED <<dir, files, routeVars, before>>
    /\ IF ~Exists(req[r].scriptId)
       THEN /\ Send(r, [status |-> 404, error |-> "Verification script not found"])
            /\ UNCHANGED <<verificationResult, verifyCalls, outcome, cache, script, everLoaded>>
       ELSE LET id == req[r].scriptId
                cleared == ClearCache(cache, id)
                module == Require(cleared, id) IN
            /\ UNCHANGED <<res, histVars>>
            /\ cache' = Cached(cleared, id)
            /\ IF ~module.loads
               THEN LET v == "Script error: " \o module.message IN
                    /\ verificationResult' = [verificationResult EXCEPT ![r] = v]
                    /\ outcome' = [outcome EXCEPT ![r] = [t |-> "loadError", v |-> module.message]]
                    /\ pc' = [pc EXCEPT ![r] = Branch(v)]
                    /\ UNCHANGED <<verifyCalls, script, everLoaded>>
               ELSE /\ script' = [script EXCEPT ![r] = module]
                    /\ everLoaded' = IF ~remember THEN everLoaded
                                      ELSE everLoaded \cup {[id |-> id, rev |-> module.rev, by |-> "run"]}
                    /\ IF ~HasVerify(module)
                       THEN /\ verificationResult' = [verificationResult EXCEPT ![r] = NoVerifyText]
                            /\ outcome' = [outcome EXCEPT ![r] = [t |-> "noVerify", v |-> ""]]
                            /\ pc' = [pc EXCEPT ![r] = Branch(NoVerifyText)]
                            /\ UNCHANGED verifyCalls
                       ELSE AwaitVerify(r)
    /\ UNCHANGED <<trackerVars, clientVars, req, transitions, closeTransition,
                   existingComment, calls>>

\* The string the catch of the script block builds from what was thrown:
\* `Script error: ${error.message}`.
ScriptErrorText(b) ==
    IF b.t = "throwError" THEN "Script error: " \o b.v ELSE "Script error: undefined"

\* await script.verify(issueKey, parameters) settles with behaviour b.
\* Reading error.message of a null or undefined rejection raises a TypeError
\* inside the catch, which the handler's outer catch answers with a 500.
VerifyReturn(r, b) ==
    /\ UNCHANGED restVars
    /\ pc[r] = "verify"
    /\ outcome' = [outcome EXCEPT ![r] = b]
    /\ IF b.t = "throwNull"
       THEN /\ Send(r, [status |-> 500, error |->
                    "Failed to run verification: Cannot read properties of null (reading 'message')"])
            /\ UNCHANGED verificationResult
       ELSE LET v == IF b.t = "return" THEN b.v ELSE ScriptErrorText(b) IN
            /\ verificationResult' = [verificationResult EXCEPT ![r] = v]
            /\ pc' = [pc EXCEPT ![r] = Branch(v)]
            /\ UNCHANGED <<res, histVars>>
    /\ UNCHANGED <<trackerVars, clientVars, req, transitions, closeTransition,
                   existingComment, calls, verifyCalls>>

\* The pass branch's catch.
VerifiedNoUpdate(r, error) ==
    [status |-> 200, success |-> TRUE, action |-> "verified",
     message |-> "Verification passed, but failed to update issue: " \o error,
     verificationResult |-> verificationResult[r]]

\* Mutant: the fail branch's catch passes the error on as a request error.
UpdateFailed_Rethrown(r, error) ==
    [status |-> 500, error |-> "Failed to run verification: " \o error]

\* The fail branch's catch.
UpdateFailed(r, error) ==
    [status |-> 200, success |-> FALSE,
     message |-> "Verification failed and could not update issue: " \o error,
     verificationResult |-> verificationResult[r]]

\* The pass branch's response after the transition.
Closed(r) ==
    [status |-> 200, success |-> TRUE, action |-> "closed",
     message |-> "Verification passed. Issue has been closed.",
     verificationResult |-> verificationResult[r],
     transition |-> closeTransition[r].name]

\* The pass branch's response after its comment.
CommentedPassNoTransition(r) ==
    [status |-> 200, success |-> TRUE, action |-> "commented",
     message |-> "Verification passed, but issue could not be auto-closed. Comment added.",
     verificationResult |-> verificationResult[r]]

\* Mutant: a Fail whose comment was written is reported as unsuccessful.
CommentedFail_Unsuccessful(r) ==
    [status |-> 200, success |-> FALSE, action |-> "commented",
     message |-> "Verification failed. Comment added to issue.",
     verificationResult |-> verificationResult[r]]

\* The fail branch's response after its write.
CommentedFail(r) ==
    [status |-> 200, success |-> TRUE, action |-> "commented",
     message |-> "Verification failed. Comment added to issue.",
     verificationResult |-> verificationResult[r]]

\* await jiraApi.findCloseTransition(issueKey) returns or throws; on return
\* the transition or the comment request is issued.
GetTransitions(r, net) ==
    /\ UNCHANGED restVars
    /\ pc[r] = "getTransitions"
    /\ LET error == RequestError(req[r].issueKey, net) IN
       /\ MakeRequest(r, Call("getTransitions", req[r].issueKey, "", 0, "", error))
       /\ IF error = ""
          THEN LET listing == TrackerTransitions(req[r].issueKey)
                   found == FindCloseTransition(listing) IN
               /\ transitions' = [transitions EXCEPT ![r] = listing]
               /\ closeTransition' = [closeTransition EXCEPT ![r] = found]
               /\ pc' = [pc EXCEPT ![r] =
                           IF found # NoTransition THEN "transitionIssue" ELSE "addCommentPass"]
               /\ UNCHANGED <<res, histVars>>
          ELSE /\ Send(r, VerifiedNoUpdate(r, error))
               /\ UNCHANGED <<transitions, closeTransition>>
    /\ UNCHANGED <<trackerVars, req, verificationResult, existingComment, verifyCalls, outcome>>

\* The tracker serves POST /issue/<key>/transitions of
\* jiraApi.transitionIssue(issueKey, closeTransition.id, comment), or the
\* call throws and the pass branch's catch answers.
TransitionIssue(r, net) ==
    /\ UNCHANGED restVars
    /\ pc[r] = "transitionIssue"
    /\ LET k == req[r].issueKey
           body == PassClosedText(req[r].commentPrefix)
           error == RequestError(k, net) IN
       /\ MakeRequest(r, Call("transitionIssue", k, closeTransition[r].id, 0, body, error))
       /\ IF error = ""
          THEN /\ comments' = TrackerAddComment(k, body)
               /\ status' = [status EXCEPT ![k] = closeTransition[r].to]
               /\ pc' = [pc EXCEPT ![r] = "closed"]
               /\ UNCHANGED <<res, histVars>>
          ELSE /\ Send(r, VerifiedNoUpdate(r, error))
               /\ UNCHANGED <<comments, status>>
    /\ UNCHANGED <<workflow, req, localVars, verifyCalls, outcome>>

\* The tracker serves POST /issue/<key>/comment of the pass branch's
\* jiraApi.addComment, or the call throws.
AddCommentPass(r, net) ==
    /\ UNCHANGED restVars
    /\ pc[r] = "addCommentPass"
    /\ LET k == req[r].issueKey
           body == PassNoTransitionText(req[r].commentPrefix)
           error == RequestError(k, net) IN
       /\ MakeRequest(r, Call("addComment", k, "", 0, body, error))
       /\ IF error = ""
          THEN /\ comments' = TrackerAddComment(k, body)
               /\ pc' = [pc EXCEPT ![r] = "commentedPass"]
               /\ UNCHANGED <<res, histVars>>
          ELSE /\ Send(r, VerifiedNoUpdate(r, error))
               /\ UNCHANGED comments
    /\ UNCHANGED <<status, workflow, req, localVars, verifyCalls, outcome>>

\* await jiraApi.getComments(issueKey) returns or throws; on return the
\* existing comment is looked up in what was listed and the write it decides
\* (update or add) is issued.
GetComments(r, net) ==
    /\ UNCHANGED restVars
    /\ pc[r] = "getComments"
    /\ LET error == RequestError(req[r].issueKey, net) IN
       /\ MakeRequest(r, Call("getComments", req[r].issueKey, "", 0, "", error))
       /\ IF error = ""
          THEN LET found == FindExisting(comments[req[r].issueKey], req[r].commentPrefix) IN
               /\ existingComment' = [existingComment EXCEPT ![r] = found]
               /\ pc' = [pc EXCEPT ![r] = "writeComment"]
               /\ UNCHANGED <<res, histVars>>
          ELSE /\ Send(r, UpdateFailed(r, error))
               /\ UNCHANGED existingComment
    /\ UNCHANGED <<trackerVars, req, verificationResult, transitions, closeTransition,
                   verifyCalls, outcome>>

\* Mutant: the comment to write to is looked up when the write is served.
WriteTarget_Live(r) == FindExisting(comments[req[r].issueKey], req[r].commentPrefix)

\* if (existingComment): what the write of the fail branch goes by.
WriteTarget(r) == existingComment[r]

\* The tracker serves PUT /issue/<key>/comment/<id> of
\* jiraApi.updateComment(issueKey, existingComment.id, commentText), or the
\* call throws.
UpdateComment(r, net) ==
    /\ UNCHANGED restVars
    /\ pc[r] = "writeComment"
    /\ WriteTarget(r) # NoComment
    /\ LET k == req[r].issueKey
           body == commentText(req[r].commentPrefix, verificationResult[r])
           error == RequestError(k, net) IN
       /\ MakeRequest(r, Call("updateComment", k, "", WriteTarget(r).id, body, error))
       /\ IF error = ""
          THEN /\ comments' = TrackerUpdateComment(k, WriteTarget(r).id, body)
               /\ pc' = [pc EXCEPT ![r] = "commentedFail"]
               /\ UNCHANGED <<res, histVars>>
          ELSE /\ Send(r, UpdateFailed(r, error))
               /\ UNCHANGED comments
    /\ UNCHANGED <<status, workflow, req, localVars, verifyCalls, outcome>>

\* The tracker serves POST /issue/<key>/comment of the fail branch's
\* jiraApi.addComment(issueKey, commentText), or the call throws.
AddCommentFail(r, net) ==
    /\ UNCHANGED restVars
    /\ pc[r] = "writeComment"
    /\ WriteTarget(r) = NoComment
    /\ LET k == req[r].issueKey
           body == commentText(req[r].commentPrefix, verificationResult[r])
           error == RequestError(k, net) IN
       /\ MakeRequest(r, Call("addComment", k, "", 0, body, error))
       /\ IF error = ""
          THEN /\ comments' = TrackerAddComment(k, body)
               /\ pc' = [pc EXCEPT ![r] = "commentedFail"]
               /\ UNCHANGED <<res, histVars>>
          ELSE /\ Send(r, UpdateFailed(r, error))
               /\ UNCHANGED comments
    /\ UNCHANGED <<status, workflow, req, localVars, verifyCalls, outcome>>

\* The await of a write returns to the handler, which sends its res.json.
WriteReturn(r) ==
    /\ UNCHANGED restVars
    /\ pc[r] \in {"closed", "commentedPass", "commentedFail"}
    /\ Send(r, CASE pc[r] = "closed" -> Closed(r)
                 [] pc[r] = "commentedPass" -> CommentedPassNoTransition(r)
                 [] pc[r] = "commentedFail" -> CommentedFail(r))
    /\ UNCHANGED <<trackerVars, clientVars, req, localVars, calls, verifyCalls, outcome>>

\* The steps of the handler instances in rs, for requests out of bodies (at
\* most limit of them) and checks behaving as in behaviours.
Step(rs, bodies, behaviours, limit, remember) ==
    \/ \E r \in rs, body \in bodies : Request(r, body, limit, remember)
    \/ \E r \in rs, net \in BOOLEAN : GetIssue(r, net)
    \/ \E r \in rs : Access(r, remember)
    \/ \E r \in rs, b \in behaviours : VerifyReturn(r, b)
    \/ \E r \in rs, net \in BOOLEAN : GetTransitions(r, net)
    \/ \E r \in rs, net \in BOOLEAN : TransitionIssue(r, net)
    \/ \E r \in rs, net \in BOOLEAN : AddCommentPass(r, net)
    \/ \E r \in rs, net \in BOOLEAN : GetComments(r, net)
    \/ \E r \in rs, net \in BOOLEAN : UpdateComment(r, net)
    \/ \E r \in rs, net \in BOOLEAN : AddCommentFail(r, net)
    \/ \E r \in rs : WriteReturn(r)

\* One handler instance serving run after run of the sample script on
\* PROJ-1 under the default prefix, in each of the workflows.
RepeatBodies == [issueKey : {"PROJ-1"}, scriptId : {"sample-test"}, commentPrefix : {DefaultPrefix}]
RepeatBehaviours == [t : {"return"}, v : {"ok", "timeout", "build failed"}]
NextRepeat == Step({"r1"}, RepeatBodies, RepeatBehaviours, MaxRepeatRequests, TRUE)
InitRepeat == InitIn({InitialWorkflow, GlobalWorkflow, ReviewWorkflow},
                     {[enumerable |-> TRUE, names |-> DirOrder]})
SpecRepeat == InitRepeat /\ [][NextRepeat]_vars

\* ------------------------------------------------- the script registry

\* An editor saves a script file: the file holds its other revision.
Edit(id) ==
    /\ edits < MaxEdits
    /\ edits' = edits + 1
    /\ files' = [files EXCEPT ![id] = IF @ = ScriptDir[id] THEN Revised[id] ELSE ScriptDir[id]]
    /\ UNCHANGED <<trackerVars, clientVars, runVars, dir, cache, everLoaded,
                   lpc, scriptsRes, historyReq, historyRes, historyCalls, listings, histories,
                   settingsVars, bulkVars>>

\* The for loop of GET /scripts from file i on, under require.cache c, with
\* the modules required so far: a file that does not end with .js is passed
\* over, a module that throws is logged and passed over.
RECURSIVE LoadFrom(_, _, _)
LoadFrom(i, c, modules) ==
    IF i > Len(dir.names) THEN [modules |-> modules, cache |-> c]
    ELSE IF ~EndsWith(dir.names[i], ".js") THEN LoadFrom(i + 1, c, modules)
    ELSE LET id == Basename(dir.names[i])
             module == Require(c, id) IN
         IF ~module.loads THEN LoadFrom(i + 1, c, modules)
         ELSE LoadFrom(i + 1, Cached(c, id), Append(modules, [id |-> id, module |-> module]))

\* Mutant: a module without a verify function is left out of the listing.
Listable_WithVerify(module) == module.hasVerify

\* What the loop asks of a module it required before pushing it: nothing.
Listable(module) == TRUE

\* The object scripts.push receives for file <id>.js and its module.
ScriptEntry(id, module) ==
    [id |-> id,
     name |-> IF module.name # "" THEN module.name ELSE id,
     description |-> IF module.description # "" THEN module.description
                     ELSE "No description available"]

\* The scripts array after the loop.
Scripts(modules) ==
    LET kept == SelectSeq(modules, LAMBDA m : Listable(m.module)) IN
    [i \in 1..Len(kept) |-> ScriptEntry(kept[i].id, kept[i].module)]

\* GET /scripts arrives and fs.readdir is issued.
ListRequest ==
    /\ lpc = "idle"
    /\ listings < MaxListings
    /\ listings' = listings + 1
    /\ lpc' = "readdir"
    /\ scriptsRes' = NoResponse
    /\ UNCHANGED <<trackerVars, clientVars, runVars, registryVars,
                   historyReq, historyRes, historyCalls, edits, histories,
                   settingsVars, bulkVars>>

\* Mutant: a directory that cannot be read is answered as an empty one.
ListFailure_Empty == [status |-> 200, scripts |-> << >>]

\* The response of the outer catch of GET /scripts.
ListFailure == [status |-> 500, error |-> "Failed to get verification scripts"]

\* await fs.readdir returns the file names or throws; on return the loop
\* requires every .js file and the scripts collected are sent.
ListReturn ==
    /\ lpc = "readdir"
    /\ lpc' = "idle"
    /\ IF dir.enumerable
       THEN LET loop == LoadFrom(1, cache, << >>) IN
            /\ cache' = loop.cache
            /\ everLoaded' = everLoaded \cup
                   {[id |-> loop.modules[i].id, rev |-> loop.modules[i].module.rev, by |-> "list"] :
                        i \in 1..Len(loop.modules)}
            /\ scriptsRes' = [status |-> 200, scripts |-> Scripts(loop.modules)]
       ELSE /\ scriptsRes' = ListFailure
            /\ UNCHANGED <<cache, everLoaded>>
    /\ UNCHANGED <<trackerVars, clientVars, runVars, dir, files,
                   historyReq, historyRes, historyCalls, edits, listings, histories,
                   settingsVars, bulkVars>>

\* The requests of the registry behaviours: each script on PROJ-1.
RegistryBodies ==
    [issueKey : {"PROJ-1"}, scriptId : DOMAIN ScriptDir, commentPrefix : {DefaultPrefix}]
RegistryBehaviours == {[t |-> "return", v |-> "ok"]}

\* One handler instance of POST /run, the editor and GET /scripts.
NextRegistry ==
    \/ Step({"r1"}, RegistryBodies, RegistryBehaviours, MaxRegistryRequests, TRUE)
    \/ \E id \in DOMAIN ScriptDir : Edit(id)
    \/ ListRequest
    \/ ListReturn
InitRegistry == InitIn({InitialWorkflow}, Directories)
SpecRegistry == InitRegistry /\ [][NextRegistry]_vars

\* ----------------------------------------------------- the history route

\* req.params.issueKey and req.query.commentPrefix of GET /history: an
\* issue the tracker holds or not, the default prefix or the same in lower case.
HistoryRequests ==
    [issueKey : {"PROJ-2", "PROJ-9"}, commentPrefix : {DefaultPrefix, "[verification]"}]

\* GET /history/:issueKey arrives and jiraApi.getComments is issued.
HistoryRequest(h) ==
    /\ historyReq = NoHistoryReq
    /\ histories < MaxHistories
    /\ histories' = histories + 1
    /\ historyReq' = h
    /\ historyRes' = NoResponse
    /\ UNCHANGED <<trackerVars, clientVars, runVars, registryVars,
                   lpc, scriptsRes, historyCalls, edits, listings, settingsVars, bulkVars>>

\* Mutant: the prefix is compared without regard to case.
HistoryFilter_AnyCase(listing, prefix) ==
    LET kept == SelectSeq(listing,
                    LAMBDA comment : StartsWith(ToLowerCase(comment.body), ToLowerCase(prefix))) IN
    [i \in 1..Len(kept) |-> [id |-> kept[i].id, body |-> kept[i].body]]

\* comments.comments.filter(comment => comment.body.startsWith(commentPrefix))
\* .map(...): the id and body of each comment kept (the tracker's author
\* and dates are copied with them).
HistoryFilter(listing, prefix) ==
    LET kept == SelectSeq(listing, LAMBDA comment : StartsWith(comment.body, prefix)) IN
    [i \in 1..Len(kept) |-> [id |-> kept[i].id, body |-> kept[i].body]]

\* await jiraApi.getComments(issueKey) returns or throws, and GET /history
\* answers.
HistoryReturn(net) ==
    /\ historyReq # NoHistoryReq
    /\ historyReq' = NoHistoryReq
    /\ LET k == historyReq.issueKey
           error == RequestError(k, net) IN
       /\ LazyInitialize
       /\ settings' = settings
       /\ historyCalls' = Append(historyCalls, Call("getComments", k, "", 0, "", error))
       /\ historyRes' =
             IF error = ""
             THEN LET verificationComments == HistoryFilter(comments[k], historyReq.commentPrefix) IN
                  [status |-> 200, issueKey |-> k,
                   verificationComments |-> verificationComments,
                   total |-> Len(verificationComments)]
             ELSE [status |-> 500, error |-> "Failed to get verification history: " \o error]
    /\ UNCHANGED <<trackerVars, runVars, registryVars, lpc, scriptsRes, edits, listings, histories,
                   settingsVars, bulkVars>>

\* The runs between which the history is read: the sample script on either
\* issue under the default prefix.
HistoryBodies == [issueKey : IssueKeys, scriptId : {"sample-test"}, commentPrefix : {DefaultPrefix}]

\* One handler instance of POST /run and GET /history.
NextHistory ==
    \/ Step({"r1"}, HistoryBodies, CoreBehaviours, MaxHistoryRuns, FALSE)
    \/ \E h \in HistoryRequests : HistoryRequest(h)
    \/ \E net \in BOOLEAN : HistoryReturn(net)
SpecHistory == Init /\ [][NextHistory]_vars

\* --------------------------------------------- findCloseTransition alone

\* Names a tracker gives its transitions.
TransitionNames ==
    {"Start Progress", "Reclose - do not use", "Mark as DONE", "Close Issue",
     "Reopen", "Mark Unresolved"}

\* The listings of at most MaxListing transitions with these names, the id
\* of each being its place in the listing.
Listings ==
    UNION {{[i \in 1..n |-> [id |-> ToString(i), name |-> names[i], to |-> "Closed"]] :
                names \in [1..n -> TransitionNames]} : n \in 0..MaxListing}

\* const transitions = await this.getTransitions(issueKey): a listing arrives.
ReceiveListing(r, listing) ==
    /\ pc[r] \in {"idle", "found"}
    /\ pc' = [pc EXCEPT ![r] = "findClose"]
    /\ transitions' = [transitions EXCEPT ![r] = listing]
    /\ closeTransition' = [closeTransition EXCEPT ![r] = NoTransition]
    /\ UNCHANGED <<trackerVars, clientVars, registryVars, routeVars, req, script,
                   verificationResult, existingComment, res, calls, verifyCalls, outcome,
                   histVars, before>>

\* The loop of findCloseTransition runs over the listing received.
FindClose(r) ==
    /\ pc[r] = "findClose"
    /\ pc' = [pc EXCEPT ![r] = "found"]
    /\ closeTransition' = [closeTransition EXCEPT ![r] = FindCloseTransition(transitions[r])]
    /\ UNCHANGED <<trackerVars, clientVars, registryVars, routeVars, req, script,
                   verificationResult, transitions, existingComment, res, calls, verifyCalls,
                   outcome, histVars, before>>

\* findCloseTransition applied to every listing.
NextFind ==
    \/ \E listing \in Listings : ReceiveListing("r1", listing)
    \/ FindClose("r1")
SpecFind == Init /\ [][NextFind]_vars

\* --------------------------------------------------- bulk creation (CSV)

\* The headers of the uploaded CSV files, in the file's order.
Headers == <<"summary", "dueDate", "project">>

\* The rows parseCSV yields: one object per line, keyed by the headers,
\* with the values a cell of each column holds in the uploaded files.
Rows == [summary : {"", " ", "Fix login "},
         dueDate : {"", " 2024-01-15", "15/01/2024"},
         project : {"", "OPS"}]

\* The CSV files of at most n rows.
RECURSIVE Files(_)
Files(n) ==
    IF n = 0 THEN {<< >>}
    ELSE LET shorter == Files(n - 1) IN
         shorter \cup {Append(f, row) : f \in {g \in shorter : Len(g) = n - 1}, row \in Rows}

\* What getTemplates returns: a default template (bug-report, its
\* description cut short) and a saved one that names a project and no
\* issue type.
Templates ==
    << [id |-> "bug-report", name |-> "Bug Report", issueType |-> "Bug",
        summary |-> "Bug: [Brief description]", description |-> "**Bug Description:**",
        labels |-> <<"bug">>, priority |-> "Medium", project |-> "", assignee |-> ""],
       [id |-> "ops-task", name |-> "Ops Task", issueType |-> "",
        summary |-> "Task: [Brief description]", description |-> "",
        labels |-> << >>, priority |-> "", project |-> "OPS", assignee |-> "ops.lead"] >>

\* The requests to POST /bulk: without a file, or a file with the id of no
\* template, of a template, or of a template that does not exist.
Uploads ==
    {NoUpload} \cup
    [file : {TRUE}, rows : Files(MaxRows),
     templateId : {"", "bug-report", "ops-task", "retired"}]

\* The projects the tracker creates issues in.
Projects == {"OPS"}

\* String.prototype.trim (of the whitespace, the cells hold blanks)
RECURSIVE Trim(_)
Trim(s) ==
    IF Len(s) = 0 THEN s
    ELSE IF SubSeq(s, 1, 1) = " " THEN Trim(SubSeq(s, 2, Len(s)))
    ELSE IF SubSeq(s, Len(s), Len(s)) = " " THEN Trim(SubSeq(s, 1, Len(s) - 1))
    ELSE s

\* /^\d{4}-\d{2}-\d{2}$/.test(value)
IsDate(value) ==
    /\ Len(value) = 10
    /\ \A i \in {1, 2, 3, 4, 6, 7, 9, 10} :
          SubSeq(value, i, i) \in {"0", "1", "2", "3", "4", "5", "6", "7", "8", "9"}
    /\ \A i \in {5, 8} : SubSeq(value, i, i) = "-"

\* value.split(',').map(x => x.trim()).filter(x => x), from position i on
\* with the piece begun.
RECURSIVE SplitFrom(_, _, _)
SplitFrom(value, i, piece) ==
    IF i > Len(value)
    THEN IF Trim(piece) = "" THEN << >> ELSE << Trim(piece) >>
    ELSE IF SubSeq(value, i, i) = ","
    THEN (IF Trim(piece) = "" THEN << >> ELSE << Trim(piece) >>) \o SplitFrom(value, i + 1, "")
    ELSE SplitFrom(value, i + 1, piece \o SubSeq(value, i, i))

\* An object without properties, and the assignment of one property.
NoData == [f \in {} |-> ""]
Put(data, f, value) == [g \in DOMAIN data \cup {f} |-> IF g = f THEN value ELSE data[g]]

\* The value of a property, "" when the object does not have it (undefined).
Get(data, f) == IF f \in DOMAIN data THEN data[f] ELSE ""

\* a || b on strings.
Or(a, b) == IF a # "" THEN a ELSE b

\* Mutant: the template's summary is among the defaults.
TemplateDefaults_WithSummary(t) ==
    [issueType |-> Or(t.issueType, "Task"), project |-> t.project,
     description |-> t.description, labels |-> t.labels,
     priority |-> Or(t.priority, "Medium"), assignee |-> t.assignee,
     summary |-> t.summary]

\* processedRow.data of a row under a template, before the CSV's fields.
TemplateDefaults(t) ==
    [issueType |-> Or(t.issueType, "Task"), project |-> t.project,
     description |-> t.description, labels |-> t.labels,
     priority |-> Or(t.priority, "Medium"), assignee |-> t.assignee]

\* The body of Object.keys(row).forEach: the switch on the lower-cased key,
\* applied to the row under construction.
ProcessField(processedRow, key, raw) ==
    LET value == Trim(raw)
        k == ToLowerCase(key)
        set(f, v) == [processedRow EXCEPT !.data = Put(@, f, v)]
    IN IF value = "" THEN processedRow
       ELSE IF k = "summary" THEN set("summary", value)
       ELSE IF k = "description" THEN set("description", value)
       ELSE IF k \in {"issuetype", "issue_type"} THEN set("issueType", value)
       ELSE IF k = "project" THEN set("project", value)
       ELSE IF k = "assignee" THEN set("assignee", value)
       ELSE IF k = "labels" THEN set("labels", SplitFrom(value, 1, ""))
       ELSE IF k \in {"duedate", "due_date"}
       THEN IF IsDate(value) THEN set("dueDate", value)
            ELSE [processedRow EXCEPT !.errors = Append(@,
                     "Invalid date format for dueDate: " \o value \o ". Expected YYYY-MM-DD")]
       ELSE IF k = "priority" THEN set("priority", value)
       ELSE IF k = "components" THEN set("components", SplitFrom(value, 1, ""))
       ELSE IF StartsWith(key, "customfield_") THEN set(key, value)
       ELSE processedRow

\* Object.keys(row).forEach from header i on.
RECURSIVE ProcessFields(_, _, _)
ProcessFields(processedRow, row, i) ==
    IF i > Len(Headers) THEN processedRow
    ELSE ProcessFields(ProcessField(processedRow, Headers[i], row[Headers[i]]), row, i + 1)

\* The body of csvData.forEach: the processed row of the row at index + 1.
ProcessRow(row, rowNumber, t) ==
    LET start == [rowNumber |-> rowNumber,
                  data |-> IF t # NoTemplate THEN TemplateDefaults(t) ELSE NoData,
                  errors |-> << >>]
        fields == ProcessFields(start, row, 1)
    IN IF Get(fields.data, "summary") = ""
       THEN [fields EXCEPT !.errors = Append(@, "Summary is required")]
       ELSE fields

\* processIssueCSVData(csvData, template)
processIssueCSVData(csvData, t) ==
    LET data == [i \in 1..Len(csvData) |-> ProcessRow(csvData[i], i, t)]
        failing == SelectSeq(data, LAMBDA processedRow : Len(processedRow.errors) > 0)
        rowErrors == [i \in 1..Len(failing) |->
                        [row |-> failing[i].rowNumber, errors |-> failing[i].errors]]
    IN [data |-> data, errors |-> rowErrors, valid |-> Len(rowErrors) = 0]

\* const issueData of the loop body (a field that is not sent is "" or << >>).
IssueData(data) ==
    [project |-> Get(data, "project"),
     issuetype |-> Or(Get(data, "issueType"), "Task"),
     summary |-> Get(data, "summary"),
     description |-> Get(data, "description"),
     assignee |-> Get(data, "assignee"),
     labels |-> IF "labels" \in DOMAIN data THEN data["labels"] ELSE << >>,
     duedate |-> Get(data, "dueDate"),
     priority |-> Get(data, "priority"),
     components |-> IF "components" \in DOMAIN data THEN data["components"] ELSE << >>]

\* The message of the Error createIssue throws for the fields given ("" when
\* the issue is created): the tracker answers 400 for a project it does not
\* have.
CreateError(fields, net) ==
    IF ~ClientReady THEN NotConfiguredMessage
    ELSE IF ~net THEN "Network Error"
    ELSE IF fields.project \notin Projects THEN "Request failed with status code 400"
    ELSE ""

\* Mutant: a file with rows in error is processed all the same.
Rejected_Never(p) == FALSE

\* if (!processed.valid): the file is rejected as a whole.
Rejected(p) == ~p.valid

\* The loop from row i on, up to its next await: a row with errors is
\* recorded and passed over; the first row without is submitted; past the
\* last row the loop ends.
RECURSIVE LoopFrom(_, _, _)
LoopFrom(p, i, errs) ==
    IF i > Len(p.data) THEN [cursor |-> i, errors |-> errs]
    ELSE IF Len(p.data[i].errors) > 0
    THEN LoopFrom(p, i + 1, Append(errs, [row |-> p.data[i].rowNumber, errors |-> p.data[i].errors]))
    ELSE [cursor |-> i, errors |-> errs]

\* The response after the loop.
BulkCompleted(p, created, errs) ==
    [status |-> 200, success |-> TRUE,
     message |-> "Bulk creation completed. " \o ToString(Len(created)) \o " issues created, "
                 \o ToString(Len(errs)) \o " failed.",
     results |-> [created |-> created, errors |-> errs, total |-> Len(p.data),
                  successful |-> Len(created), failed |-> Len(errs)]]

\* The loop goes on from row i: createIssue is called for the next row
\* without errors, or the response is sent.
Continue(p, i, created, errs) ==
    LET loop == LoopFrom(p, i, errs) IN
    /\ cursor' = loop.cursor
    /\ errors' = loop.errors
    /\ results' = created
    /\ IF loop.cursor > Len(p.data)
       THEN /\ bulkRes' = BulkCompleted(p, created, loop.errors)
            /\ bpc' = "idle"
       ELSE /\ bpc' = "createIssue"
            /\ UNCHANGED bulkRes

bulkRest == <<trackerVars, runVars, registryVars, settingsVars,
              lpc, scriptsRes, historyReq, historyRes, historyCalls, edits, listings, histories>>

\* POST /bulk arrives with the client's upload: without a file it is
\* answered 400; with a template id the templates are read, without one the
\* file is parsed.
BulkRequest ==
    /\ bpc = "idle"
    /\ bulks < MaxBulks
    /\ bulks' = bulks + 1
    /\ template' = NoTemplate
    /\ processed' = NoProcessed
    /\ cursor' = 0
    /\ results' = << >>
    /\ errors' = << >>
    /\ submitted' = << >>
    /\ IF ~upload.file
       THEN /\ bulkRes' = [status |-> 400, error |-> "CSV file is required"]
            /\ UNCHANGED bpc
       ELSE /\ bulkRes' = NoResponse
            /\ bpc' = IF upload.templateId # "" THEN "getTemplates" ELSE "parseCSV"
    /\ UNCHANGED <<bulkRest, clientVars, upload>>

\* await getTemplates() returns: the template asked for is looked up.
TemplatesReturn ==
    /\ bpc = "getTemplates"
    /\ IF \E i \in 1..Len(Templates) : Templates[i].id = upload.templateId
       THEN /\ template' = Templates[CHOOSE i \in 1..Len(Templates) :
                                        /\ Templates[i].id = upload.templateId
                                        /\ \A j \in 1..(i - 1) : Templates[j].id # upload.templateId]
            /\ bpc' = "parseCSV"
            /\ UNCHANGED bulkRes
       ELSE /\ bulkRes' = [status |-> 404, error |-> "Template not found"]
            /\ bpc' = "idle"
            /\ UNCHANGED template
    /\ UNCHANGED <<bulkRest, clientVars, upload, processed, cursor, results, errors, submitted,
                   bulks>>

\* await parseCSV(req.file.buffer) returns the rows: an empty file and a
\* file with a row in error are answered 400; otherwise the loop starts.
ParseReturn ==
    /\ bpc = "parseCSV"
    /\ LET csvData == upload.rows
           p == processIssueCSVData(csvData, template) IN
       IF Len(csvData) = 0
       THEN /\ bulkRes' = [status |-> 400, error |-> "CSV file is empty"]
            /\ bpc' = "idle"
            /\ UNCHANGED <<processed, cursor, results, errors>>
       ELSE /\ processed' = p
            /\ IF Rejected(p)
               THEN /\ bulkRes' = [status |-> 400, error |-> "CSV validation failed",
                                   errors |-> p.errors]
                    /\ bpc' = "idle"
                    /\ UNCHANGED <<cursor, results, errors>>
               ELSE Continue(p, 1, << >>, << >>)
    /\ UNCHANGED <<bulkRest, clientVars, upload, template, submitted, bulks>>

\* Mutant: a create that threw leaves no record.
RowFailed_Unrecorded(errs, rowNumber, message) == errs

\* The catch of the loop body: the error is recorded against the row.
RowFailed(errs, rowNumber, message) == Append(errs, [row |-> rowNumber, error |-> message])

\* await jiraApi.createIssue(issueData) returns or throws: the issue is
\* recorded as created and the loop pauses, or the error is recorded and
\* the loop goes on.
CreateReturn(net) ==
    /\ bpc = "createIssue"
    /\ LET row == processed.data[cursor]
           fields == IssueData(row.data)
           message == CreateError(fields, net)
           n == Cardinality({i \in 1..Len(submitted) : submitted[i].error = ""}) + 1 IN
       /\ LazyInitialize
       /\ settings' = settings
       /\ submitted' = Append(submitted, [row |-> row.rowNumber, fields |-> fields,
                                           error |-> message])
       /\ IF message = ""
          THEN /\ results' = Append(results,
                      [row |-> row.rowNumber, success |-> TRUE,
                       issue |-> [key |-> fields.project \o "-" \o ToString(n),
                                  id |-> ToString(10000 + n),
                                  summary |-> Get(row.data, "summary")]])
               /\ bpc' = "delay"
               /\ UNCHANGED <<cursor, errors, bulkRes>>
          ELSE Continue(processed, cursor + 1, results,
                        RowFailed(errors, row.rowNumber, message))
    /\ UNCHANGED <<bulkRest, upload, template, processed, bulks>>

\* The 100 ms pause after a created issue is over.
DelayReturn ==
    /\ bpc = "delay"
    /\ Continue(processed, cursor + 1, results, errors)
    /\ UNCHANGED <<bulkRest, clientVars, upload, template, processed, submitted, bulks>>

\* One POST /bulk at a time, with any of the uploads.
NextBulk ==
    \/ BulkRequest
    \/ TemplatesReturn
    \/ ParseReturn
    \/ \E net \in BOOLEAN : CreateReturn(net)
    \/ DelayReturn
InitBulk ==
    InitFrom({NoSettings, SettingsToSave(SavedSettings)}, {InitialComments},
             {InitialWorkflow}, {[enumerable |-> TRUE, names |-> DirOrder]}, Uploads)
SpecBulk == InitBulk /\ [][NextBulk]_vars

\* ------------------------------------------- settings and the lazy client

\* The bodies of POST /settings: a new tracker, the stored tracker with a
\* new token, a body without token and a body whose URL is none.
SaveBodies ==
    { [jiraUrl |-> "https://new.example.com/", username |-> "admin", apiToken |-> "token-2"],
      [jiraUrl |-> "https://jira.example.com", username |-> "bot", apiToken |-> "token-2"],
      [jiraUrl |-> "https://jira.example.com", username |-> "bot", apiToken |-> ""],
      [jiraUrl |-> "jira.example.com", username |-> "bot", apiToken |-> "secret"] }

\* The tokens a settings file can hold.
Tokens == {"secret", "token-2"}

\* A settings file left by hand without a token.
PartialSettings == [jiraUrl |-> "https://jira.example.com", username |-> "bot",
                    apiToken |-> "", configured |-> TRUE]

\* The endpoint of the tracker requests (testConnection's).
Endpoint == "/myself"

\* new URL(jiraUrl) does not throw: the URL has a scheme and a host.
ValidUrl(url) ==
    \E scheme \in {"http://", "https://"} : StartsWith(url, scheme) /\ Len(url) > Len(scheme)

\* Mutant: the token is sent along with the other settings.
SafeSettings_WithToken(st) ==
    [status |-> 200, jiraUrl |-> st.jiraUrl, username |-> st.username,
     configured |-> st.configured, hasApiToken |-> st.apiToken # "",
     apiToken |-> st.apiToken]

\* const safeSettings of GET /settings, as the response that carries it.
SafeSettings(st) ==
    [status |-> 200, jiraUrl |-> st.jiraUrl, username |-> st.username,
     configured |-> st.configured, hasApiToken |-> st.apiToken # ""]

\* GET /settings: await getSettings() returns what the file holds now and
\* the safe settings are sent.
SettingsGet ==
    /\ reads < MaxSettingsReads
    /\ reads' = reads + 1
    /\ settingsRes' = SafeSettings(getSettings(settings))
    /\ UNCHANGED <<trackerVars, clientVars, runVars, registryVars, bulkVars,
                   lpc, scriptsRes, historyReq, historyRes, historyCalls, edits, listings,
                   histories, cpc, got, sent, cerr, since, requests, spc, saveBody, saveRes,
                   written, completed, saves>>

\* POST /settings arrives: a body that lacks a field or whose URL is none is
\* answered 400; otherwise saveSettings is called and awaited.
SaveRequest(body) ==
    /\ spc = "idle"
    /\ saves < MaxSaves
    /\ saves' = saves + 1
    /\ IF body.jiraUrl = "" \/ body.username = "" \/ body.apiToken = ""
       THEN /\ saveRes' = [status |-> 400,
                           error |-> "Jira URL, username, and API token are required"]
            /\ UNCHANGED <<spc, saveBody>>
       ELSE IF ~ValidUrl(body.jiraUrl)
       THEN /\ saveRes' = [status |-> 400, error |-> "Invalid Jira URL format"]
            /\ UNCHANGED <<spc, saveBody>>
       ELSE /\ saveBody' = [jiraUrl |-> StripSlash(body.jiraUrl), username |-> body.username,
                            apiToken |-> body.apiToken, configured |-> TRUE]
            /\ spc' = "writeFile"
            /\ saveRes' = NoResponse
    /\ UNCHANGED <<trackerVars, clientVars, runVars, registryVars, bulkVars,
                   lpc, scriptsRes, historyReq, historyRes, historyCalls, edits, listings,
                   histories, cpc, got, sent, cerr, since, requests, written, completed,
                   settingsRes, reads>>

\* fs.writeFile of saveSettings settles: the file holds the settings with
\* the token encrypted, or the write threw, saveSettings returns false and
\* the route answers 500.
SaveWrite(ok) ==
    /\ spc = "writeFile"
    /\ IF ok
       THEN /\ settings' = SettingsToSave(saveBody)
            /\ written' = Append(written, saveBody)
            /\ spc' = "saved"
            /\ UNCHANGED saveRes
       ELSE /\ saveRes' = [status |-> 500, error |-> "Failed to save settings"]
            /\ spc' = "idle"
            /\ UNCHANGED <<settings, written>>
    /\ UNCHANGED <<trackerVars, initialized, baseURL, auth, runVars, registryVars, bulkVars,
                   lpc, scriptsRes, historyReq, historyRes, historyCalls, edits, listings,
                   histories, cpc, got, sent, cerr, since, requests, saveBody, completed,
                   saves, settingsRes, reads>>

\* jiraApi.initialized = false, the reset of the client after a save.
ResetClient == initialized' = FALSE

\* await saveSettings(settings) returns true: the client is reset and the
\* success is answered.
SaveReturn ==
    /\ spc = "saved"
    /\ spc' = "idle"
    /\ ResetClient
    /\ completed' = completed + 1
    /\ saveRes' = [status |-> 200, success |-> TRUE, message |-> "Settings saved successfully"]
    /\ UNCHANGED <<trackerVars, settings, baseURL, auth, runVars, registryVars, bulkVars,
                   lpc, scriptsRes, historyReq, historyRes, historyCalls, edits, listings,
                   histories, cpc, got, sent, cerr, since, requests, saveBody, written,
                   saves, settingsRes, reads>>

\* The url and auth of the config makeRequest hands to axios.
Config == [url |-> baseURL' \o "/rest/api/2" \o Endpoint,
           username |-> auth'.username, password |-> auth'.password]

\* A method of JiraAPI is called: makeRequest sends the request at once when
\* the client is initialised, and calls initialize, which awaits
\* getSettings, when it is not.
ClientRequest(c) ==
    /\ cpc[c] = "idle"
    /\ requests < MaxClientRequests
    /\ requests' = requests + 1
    /\ since' = [since EXCEPT ![c] = completed]
    /\ cerr' = [cerr EXCEPT ![c] = ""]
    /\ got' = [got EXCEPT ![c] = NoSettings]
    /\ UNCHANGED <<initialized, baseURL, auth>>
    /\ IF initialized
       THEN /\ sent' = [sent EXCEPT ![c] = Config]
            /\ cpc' = [cpc EXCEPT ![c] = "axios"]
       ELSE /\ sent' = [sent EXCEPT ![c] = NoSent]
            /\ cpc' = [cpc EXCEPT ![c] = "readFile"]
    /\ UNCHANGED <<trackerVars, settings, runVars, registryVars, bulkVars,
                   lpc, scriptsRes, historyReq, historyRes, historyCalls, edits, listings,
                   histories, spc, saveBody, saveRes, written, completed, saves,
                   settingsRes, reads>>

\* fs.readFile of getSettings reads what the file holds now; the
\* continuation of initialize has not run yet.
ClientRead(c) ==
    /\ cpc[c] = "readFile"
    /\ got' = [got EXCEPT ![c] = getSettings(settings)]
    /\ cpc' = [cpc EXCEPT ![c] = "initialize"]
    /\ UNCHANGED <<trackerVars, clientVars, runVars, registryVars, bulkVars,
                   lpc, scriptsRes, historyReq, historyRes, historyCalls, edits, listings,
                   histories, sent, cerr, since, requests, spc, saveBody, saveRes, written,
                   completed, saves, settingsRes, reads>>

\* await getSettings() returns in initialize: with complete settings the
\* client takes them, is initialised and makeRequest sends the request;
\* otherwise initialize returns false and makeRequest throws.
ClientInitialize(c) ==
    /\ cpc[c] = "initialize"
    /\ IF Configured(got[c])
       THEN /\ InitializedWith(got[c])
            /\ sent' = [sent EXCEPT ![c] = Config]
            /\ cpc' = [cpc EXCEPT ![c] = "axios"]
            /\ UNCHANGED cerr
       ELSE /\ cerr' = [cerr EXCEPT ![c] = NotConfiguredMessage]
            /\ cpc' = [cpc EXCEPT ![c] = "idle"]
            /\ UNCHANGED <<initialized, baseURL, auth, sent>>
    /\ UNCHANGED <<trackerVars, settings, runVars, registryVars, bulkVars,
                   lpc, scriptsRes, historyReq, historyRes, historyCalls, edits, listings,
                   histories, got, since, requests, spc, saveBody, saveRes, written,
                   completed, saves, settingsRes, reads>>

\* await axios(config) returns the tracker's answer or throws.
ClientReturn(c, net) ==
    /\ cpc[c] = "axios"
    /\ cpc' = [cpc EXCEPT ![c] = "idle"]
    /\ cerr' = [cerr EXCEPT ![c] = IF net THEN "" ELSE "Network Error"]
    /\ UNCHANGED <<trackerVars, clientVars, runVars, registryVars, bulkVars,
                   lpc, scriptsRes, historyReq, historyRes, historyCalls, edits, listings,
                   histories, got, sent, since, requests, spc, saveBody, saveRes, written,
                   completed, saves, settingsRes, reads>>

\* Tracker requests, POST /settings and GET /settings, from a server whose
\* settings file is missing, saved, or left without a token.
NextSettings ==
    \/ \E c \in Callers : ClientRequest(c)
    \/ \E c \in Callers : ClientRead(c)
    \/ \E c \in Callers : ClientInitialize(c)
    \/ \E c \in Callers, net \in BOOLEAN : ClientReturn(c, net)
    \/ \E body \in SaveBodies : SaveRequest(body)
    \/ \E ok \in BOOLEAN : SaveWrite(ok)
    \/ SaveReturn
    \/ SettingsGet
InitSettings ==
    InitFrom({NoSettings, SettingsToSave(SavedSettings), PartialSettings}, {InitialComments},
             {InitialWorkflow}, {[enumerable |-> TRUE, names |-> DirOrder]}, {NoUpload})
SpecSettings == InitSettings /\ [][NextSettings]_vars

\* Concurrent requests: two handler instances, the core inputs.
Next == Step(Runs, CoreBodies, CoreBehaviours, MaxRequests, FALSE)
Spec == Init /\ [][Next]_vars

\* One handler instance, every request body and every check behaviour.
NextRun == Step({"r1"}, RequestBodies, VerifyBehaviours, MaxRunRequests, FALSE)
SpecRun == Init /\ [][NextRun]_vars

\* One handler instance, long histories of runs over the core inputs.
NextSeq == Step({"r1"}, CoreBodies, CoreBehaviours, MaxSeqRequests, TRUE)
SpecSeq == Init /\ [][NextSeq]_vars

\* One handler instance on a tracker whose issues carry comments that
\* resemble the tag.
NextFail == Step({"r1"}, CoreBodies, CoreBehaviours, MaxFailRequests, TRUE)
InitFail ==
    InitFrom({SettingsToSave(SavedSettings)}, {BusyComments},
             {InitialWorkflow}, {[enumerable |-> TRUE, names |-> DirOrder]}, {NoUpload})
SpecFail == InitFail /\ [][NextFail]_vars

\* ------------------------------------------------------------------ claims

\* The positions of the comments of issue k whose body starts with prefix.
Tagged(k, prefix) == {i \in 1..Len(comments[k]) : StartsWith(comments[k][i].body, prefix)}

\* Run r has answered with a 200 whose resolution is the given variant.
Resolved(r, resolution) ==
    /\ pc[r] = "done"
    /\ res[r].status = 200
    /\ ResolutionOf(res[r]) = resolution

\* No run on issue k is between its request and its response.
Quiet(k) == \A r \in Runs : InFlight(r) => req[r].issueKey # k

\* Issue k started without a comment tagged prefix, its runs never overlapped,
\* and every run on it under prefix that answered was a Fail whose comment
\* was written; there is at least one.
OnlyFails(k, prefix) ==
    /\ \A i \in 1..Len(InitialComments[k]) : ~StartsWith(InitialComments[k][i].body, prefix)
    /\ ~overlapped[k]
    /\ \E e \in seen[k] : e.prefix = prefix
    /\ \A e \in seen[k] : e.prefix = prefix => e.resolution = "CommentedFail"

\* C1: after any number of sequential Fail runs with one tag on an issue that
\* started without a tagged comment, the issue holds exactly one comment
\* starting with the tag, and when the last of them has just answered, that
\* comment's body is the tag, a space and that run's reason.
C1_IdempotentFail ==
    \A k \in IssueKeys, prefix \in Prefixes :
        OnlyFails(k, prefix) /\ Quiet(k) =>
            /\ Cardinality(Tagged(k, prefix)) = 1
            /\ \A r \in Runs :
                  /\ Resolved(r, "CommentedFail")
                  /\ req[r].issueKey = k
                  /\ req[r].commentPrefix = prefix
                  => \A i \in Tagged(k, prefix) :
                        comments[k][i].body = prefix \o " " \o res[r].verificationResult

\* A second Fail run has rewritten the comment of the first in place.
C1_Witness ==
    \E r \in Runs :
        /\ Resolved(r, "CommentedFail")
        /\ OnlyFails(req[r].issueKey, req[r].commentPrefix)
        /\ Quiet(req[r].issueKey)
        /\ calls[r][Len(calls[r])].op = "updateComment"
        /\ res[r].verificationResult = "Script error: boom"
        /\ Cardinality(Tagged(req[r].issueKey, req[r].commentPrefix)) = 1

\* C2 as stated: after a Fail resolution that completes, whatever sequential
\* runs came before, at most one comment of the issue starts with the tag.
C2_AtMostOneTagged ==
    \A r \in Runs :
        Resolved(r, "CommentedFail") /\ ~overlapped[req[r].issueKey] =>
            Cardinality(Tagged(req[r].issueKey, req[r].commentPrefix)) <= 1

\* Some run on issue k under prefix wrote a Pass comment.
PassedBefore(k, prefix) ==
    \E e \in seen[k] :
        e.prefix = prefix /\ e.resolution \in {"Closed", "CommentedPassNoTransition"}

\* C2 amended: after a Fail resolution that completes in a sequential
\* history, the first comment starting with the tag carries the tag, a space
\* and the reason, every other tagged comment is the comment of an earlier
\* Pass run, and at most one tagged comment exists when no run passed before.
C2_FailEditsFirstTagged ==
    \A r \in Runs :
        Resolved(r, "CommentedFail") /\ ~overlapped[req[r].issueKey] =>
            LET k == req[r].issueKey
                prefix == req[r].commentPrefix
                T == Tagged(k, prefix)
            IN /\ T # {}
               /\ \A i \in T :
                     IF \A j \in T : i <= j
                     THEN comments[k][i].body = commentText(prefix, res[r].verificationResult)
                     ELSE comments[k][i].body \in {PassClosedText(prefix), PassNoTransitionText(prefix)}
               /\ ~PassedBefore(k, prefix) => Cardinality(T) = 1

\* A Fail run has answered on an issue that holds the comments of two Pass runs.
C2_Witness ==
    \E r \in Runs :
        /\ Resolved(r, "CommentedFail")
        /\ ~overlapped[req[r].issueKey]
        /\ calls[r][Len(calls[r])].op = "updateComment"
        /\ Cardinality(Tagged(req[r].issueKey, req[r].commentPrefix)) = 2

\* The calls of run r that change the issue.
Mutations(r) ==
    {i \in 1..Len(calls[r]) : calls[r][i].op \in {"transitionIssue", "addComment", "updateComment"}}

\* C3 as stated: when loading the check or executing it raises, the run
\* still answers with a normal response whose verification result is
\* "Script error: " and the message, and the Fail path was taken.
C3_CrashContained ==
    \A r \in Runs :
        pc[r] = "done" /\ outcome[r].t \in {"loadError", "throwError", "throwString", "throwNull"} =>
            /\ res[r].status = 200
            /\ StartsWith(res[r].verificationResult, "Script error: ")
            /\ outcome[r].t \in {"loadError", "throwError"} =>
                  res[r].verificationResult = "Script error: " \o outcome[r].v
            /\ ResolutionOf(res[r]) \in {"CommentedFail", "UpdateFailed"}
            /\ \E i \in 1..Len(calls[r]) : calls[r][i].op = "getComments"

\* C4: a value the check returns is a Pass exactly when it is "ok" or "OK";
\* any other value is the Fail reason, written after the tag and one space
\* as it was returned.
C4_ExactClassification ==
    \A r \in Runs :
        pc[r] = "done" /\ outcome[r].t = "return" =>
            /\ res[r].status = 200
            /\ res[r].verificationResult = outcome[r].v
            /\ ResolutionOf(res[r]) \in {"Closed", "CommentedPassNoTransition", "VerifiedNoUpdate"}
                  <=> outcome[r].v \in {"ok", "OK"}
            /\ ResolutionOf(res[r]) \in {"CommentedFail", "UpdateFailed"}
                  <=> outcome[r].v \notin {"ok", "OK"}
            /\ ResolutionOf(res[r]) = "CommentedFail" =>
                  /\ calls[r][Len(calls[r])].body = req[r].commentPrefix \o " " \o outcome[r].v
                  /\ \E i \in 1..Len(comments[req[r].issueKey]) :
                        comments[req[r].issueKey][i].body = req[r].commentPrefix \o " " \o outcome[r].v

\* The check returned "ok " with a trailing space and the comment carries it.
C4_Witness ==
    \E r \in Runs :
        /\ Resolved(r, "CommentedFail")
        /\ outcome[r] = [t |-> "return", v |-> "ok "]
        /\ \E i \in 1..Len(comments[req[r].issueKey]) :
              comments[req[r].issueKey][i].body = "[Verification] ok "

\* C5: a Pass run whose transition listing holds a close-capable transition
\* issues exactly one mutating call, the transition with the selected id and
\* the closing comment under the tag, and when that call succeeds it reports
\* Closed with the name of the transition.
C5_PassCloses ==
    \A r \in Runs :
        /\ pc[r] = "done"
        /\ res[r].status = 200
        /\ isSuccess(verificationResult[r])
        /\ \E i \in 1..Len(transitions[r]) : IsCloseName(transitions[r][i].name)
        => /\ \E i \in 1..Len(transitions[r]) : transitions[r][i] = closeTransition[r]
           /\ IsCloseName(closeTransition[r].name)
           /\ Len(calls[r]) = 3
           /\ Mutations(r) = {3}
           /\ calls[r][3].op = "transitionIssue"
           /\ calls[r][3].transitionId = closeTransition[r].id
           /\ calls[r][3].body = req[r].commentPrefix \o " Verification passed. Issue auto-closed."
           /\ IF calls[r][3].error = ""
              THEN /\ ResolutionOf(res[r]) = "Closed"
                   /\ res[r].transition = closeTransition[r].name
                   /\ status[req[r].issueKey] = closeTransition[r].to
              ELSE ResolutionOf(res[r]) = "VerifiedNoUpdate"

\* A Pass run closed PROJ-1 through "Close Issue".
C5_Witness ==
    \E r \in Runs :
        /\ Resolved(r, "Closed")
        /\ res[r].transition = "Close Issue"
        /\ status[req[r].issueKey] = "Closed"

\* C6: a Pass run whose transition listing holds no close-capable name
\* applies no transition and edits no comment; its one mutating call adds
\* the comment "no close transition available" under the tag, and when that
\* call succeeds it reports CommentedPassNoTransition.
C6_PassNoTransition ==
    \A r \in Runs :
        /\ pc[r] = "done"
        /\ res[r].status = 200
        /\ isSuccess(verificationResult[r])
        /\ Len(calls[r]) >= 2
        /\ calls[r][2].error = ""
        /\ \A i \in 1..Len(transitions[r]) : ~IsCloseName(transitions[r][i].name)
        => /\ Len(calls[r]) = 3
           /\ Mutations(r) = {3}
           /\ calls[r][3].op = "addComment"
           /\ calls[r][3].body = req[r].commentPrefix
                    \o " Verification passed, but no close transition available."
           /\ IF calls[r][3].error = ""
              THEN /\ ResolutionOf(res[r]) = "CommentedPassNoTransition"
                   /\ comments[req[r].issueKey][Len(comments[req[r].issueKey])].body = calls[r][3].body
              ELSE ResolutionOf(res[r]) = "VerifiedNoUpdate"

\* A Pass run on the issue that lists only Start Progress and Reopen.
C6_Witness ==
    \E r \in Runs :
        /\ Resolved(r, "CommentedPassNoTransition")
        /\ Len(transitions[r]) = 2
        /\ transitions[r][1].name = "Start Progress"
        /\ transitions[r][2].name = "Reopen"

\* C7: when a tracker call of the resolution throws, the run answers with a
\* 200 that carries the check's result and the error's message:
\* VerifiedNoUpdate after a Pass, UpdateFailed after a Fail.
C7_UpdateFailureContained ==
    \A r \in Runs :
        pc[r] = "done" =>
            \A i \in 2..Len(calls[r]) :
                calls[r][i].error # "" =>
                    /\ res[r].status = 200
                    /\ res[r].verificationResult = verificationResult[r]
                    /\ outcome[r].t = "return" => res[r].verificationResult = outcome[r].v
                    /\ IF outcome[r] \in {[t |-> "return", v |-> "ok"], [t |-> "return", v |-> "OK"]}
                       THEN /\ ResolutionOf(res[r]) = "VerifiedNoUpdate"
                            /\ res[r].message =
                                 "Verification passed, but failed to update issue: " \o calls[r][i].error
                       ELSE /\ ResolutionOf(res[r]) = "UpdateFailed"
                            /\ res[r].message =
                                 "Verification failed and could not update issue: " \o calls[r][i].error

\* The update of an existing comment failed on the network.
C7_Witness ==
    \E r \in Runs :
        /\ Resolved(r, "UpdateFailed")
        /\ Len(calls[r]) = 3
        /\ calls[r][3].op = "updateComment"
        /\ calls[r][3].error = "Network Error"

\* C8: a run on an issue the tracker does not hold answers IssueNotFound,
\* also when the check is missing too; a run on an existing issue with a
\* check id that has no file answers CheckNotFound; neither ever invokes
\* verify nor issues a mutating call.
C8_RequestLevelErrors ==
    \A r \in Runs :
        /\ (req[r].issueKey \notin IssueKeys /\ req[r].issueKey # "" /\ req[r].scriptId # "") =>
              /\ verifyCalls[r] = 0
              /\ outcome[r] = NoOutcome
              /\ Mutations(r) = {}
              /\ pc[r] = "done" =>
                    /\ res[r].status = 404
                    /\ StartsWith(res[r].error, "Issue not found: ")
        /\ (req[r].issueKey \in IssueKeys /\ req[r].scriptId \notin DOMAIN ScriptDir
                /\ req[r].scriptId # "") =>
              /\ verifyCalls[r] = 0
              /\ outcome[r] = NoOutcome
              /\ Mutations(r) = {}
              /\ (pc[r] = "done" /\ calls[r][1].error = "") =>
                    /\ res[r].status = 404
                    /\ res[r].error = "Verification script not found"

\* Both the issue and the check are missing, and IssueNotFound is reported;
\* the tracker is configured and reachable.
C8_Witness ==
    \E r \in Runs :
        /\ pc[r] = "done"
        /\ req[r].issueKey = "PROJ-9"
        /\ req[r].scriptId = "absent"
        /\ res[r].status = 404
        /\ res[r].error = "Issue not found: Issue Does Not Exist"

\* Runs r and o answered CommentedFail for the same issue and tag.
BothFailed(r, o) ==
    /\ r # o
    /\ Resolved(r, "CommentedFail")
    /\ Resolved(o, "CommentedFail")
    /\ req[r].issueKey = req[o].issueKey
    /\ req[r].commentPrefix = req[o].commentPrefix

\* C9: nothing serialises two runs on one issue: when both listed the
\* comments before either wrote and found no tagged comment, both add one
\* and the issue holds two comments starting with the tag.
C9_RaceDuplicates ==
    \A r \in Runs, o \in Runs :
        /\ BothFailed(r, o)
        /\ existingComment[r] = NoComment
        /\ existingComment[o] = NoComment
        => /\ overlapped[req[r].issueKey]
           /\ Cardinality(Tagged(req[r].issueKey, req[r].commentPrefix)) >= 2
           /\ calls[r][3].op = "addComment"
           /\ calls[o][3].op = "addComment"

\* The duplicate: two concurrent Fail runs on PROJ-1 each added a tagged comment.
C9_Witness ==
    \E r \in Runs, o \in Runs :
        /\ BothFailed(r, o)
        /\ existingComment[r] = NoComment
        /\ existingComment[o] = NoComment
        /\ Cardinality(Tagged(req[r].issueKey, req[r].commentPrefix)) = 2

\* The lost update: o has answered, r's update of the same comment was
\* served before o's and r has yet to answer, so the comment will show o's
\* reason when r, the last to finish, reports its own.
C9_LostUpdate ==
    \E r \in Runs, o \in Runs :
        /\ r # o
        /\ Resolved(o, "CommentedFail")
        /\ pc[r] = "commentedFail"
        /\ req[r].issueKey = req[o].issueKey
        /\ req[r].commentPrefix = req[o].commentPrefix
        /\ existingComment[r] # NoComment
        /\ existingComment[r].id = existingComment[o].id
        /\ verificationResult[r] # verificationResult[o]
        /\ \E i \in 1..Len(comments[req[r].issueKey]) :
              /\ comments[req[r].issueKey][i].id = existingComment[r].id
              /\ comments[req[r].issueKey][i].body
                    = req[o].commentPrefix \o " " \o verificationResult[o]

\* The first call of run r that threw (0 when none did).
FirstFailure(r) ==
    IF \E i \in 1..Len(calls[r]) : calls[r][i].error # ""
    THEN CHOOSE i \in 1..Len(calls[r]) :
            /\ calls[r][i].error # ""
            /\ \A j \in 1..(i - 1) : calls[r][j].error = ""
    ELSE 0

\* What run r, given its request, what its check did and which of its calls
\* threw, leaves on its issue and answers when it is the only run the issue
\* ever had: the function of the handler on the issue's initial state.
Alone(r) ==
    LET k == req[r].issueKey
        prefix == req[r].commentPrefix
        f == FirstFailure(r)
        v == IF outcome[r].t = "return" THEN outcome[r].v ELSE "Script error: " \o outcome[r].v
        untouched == [comments |-> InitialComments[k], status |-> "Open"]
        listing == Workflows[InitialWorkflow[k]]["Open"]
        closing == {i \in 1..Len(listing) :
                      \E w \in {"close", "resolve", "done", "complete", "finish"} :
                          Includes(ToLowerCase(listing[i].name), w)}
        first == CHOOSE i \in closing : \A j \in closing : i <= j
        tagged == {i \in 1..Len(InitialComments[k]) : StartsWith(InitialComments[k][i].body, prefix)}
        target == CHOOSE i \in tagged : \A j \in tagged : i <= j
        added(body) == Append(InitialComments[k], [id |-> Len(InitialComments[k]) + 1, body |-> body])
        ok(action, message) == [status |-> 200, success |-> TRUE, action |-> action,
                                message |-> message, verificationResult |-> v]
    IN  IF f = 1
        THEN untouched @@ [res |-> [status |-> 404, error |-> "Issue not found: " \o calls[r][1].error]]
        ELSE IF v \in {"ok", "OK"}
        THEN IF f # 0
             THEN untouched @@ [res |-> ok("verified",
                        "Verification passed, but failed to update issue: " \o calls[r][f].error)]
             ELSE IF closing # {}
             THEN [comments |-> added(prefix \o " Verification passed. Issue auto-closed."),
                   status |-> listing[first].to,
                   res |-> ok("closed", "Verification passed. Issue has been closed.")
                            @@ [transition |-> listing[first].name]]
             ELSE [comments |-> added(prefix \o " Verification passed, but no close transition available."),
                   status |-> "Open",
                   res |-> ok("commented",
                        "Verification passed, but issue could not be auto-closed. Comment added.")]
        ELSE IF f # 0
             THEN untouched @@ [res |-> [status |-> 200, success |-> FALSE,
                        message |-> "Verification failed and could not update issue: " \o calls[r][f].error,
                        verificationResult |-> v]]
             ELSE [comments |-> IF tagged = {} THEN added(prefix \o " " \o v)
                                ELSE [i \in 1..Len(InitialComments[k]) |->
                                        IF i = target
                                        THEN [id |-> InitialComments[k][i].id, body |-> prefix \o " " \o v]
                                        ELSE InitialComments[k][i]],
                   status |-> "Open",
                   res |-> ok("commented", "Verification failed. Comment added to issue.")]

\* C10: a run that is the only one its issue ever had leaves on the issue
\* and answers what it does alone, whatever runs on other issues do in
\* between and afterwards.
C10_DifferentKeysIndependent ==
    \A r \in Runs :
        /\ pc[r] = "done"
        /\ req[r].issueKey \in IssueKeys
        /\ runsOn[req[r].issueKey] = 1
        => /\ comments[req[r].issueKey] = Alone(r).comments
           /\ status[req[r].issueKey] = Alone(r).status
           /\ res[r] = Alone(r).res

\* Two runs on different issues were in flight together and both changed
\* their issue: one closed PROJ-1, the other rewrote the comment on PROJ-2.
C10_Witness ==
    /\ Resolved("r1", "Closed")
    /\ Resolved("r2", "CommentedFail")
    /\ req["r1"].issueKey # req["r2"].issueKey
    /\ runsOn = [k \in IssueKeys |-> 1]
    /\ calls["r2"][1].op = "getIssue"
    /\ Len(calls["r1"]) = 3

\* Run r required a module that loaded and does not export a verify function.
LacksVerify(r) == script[r] # NotLoaded /\ ~script[r].hasVerify

\* C11 as stated: a run of a check unit that exists and has no verify entry
\* point is answered with a request-level error (not found / invalid check)
\* and performs no mutating call on the issue.
C11_MissingVerifyIsRequestError ==
    \A r \in Runs :
        pc[r] = "done" /\ LacksVerify(r) =>
            /\ res[r].status \in {400, 404}
            /\ Mutations(r) = {}

\* C11 amended: a run of a unit without a verify entry point never crashes
\* and never invokes verify; it is a Fail whose reason is "Script error:
\* Script does not export a verify function", resolved on the Fail path: the
\* comments are listed and, when that succeeds, the tagged comment is added
\* or updated with that reason, the answer being a 200 that carries it.
C11_MissingVerifyIsFail ==
    \A r \in Runs :
        LacksVerify(r) =>
            /\ verifyCalls[r] = 0
            /\ outcome[r].t = "noVerify"
            /\ \A i \in 1..Len(calls[r]) : calls[r][i].op # "transitionIssue"
            /\ pc[r] = "done" =>
                  /\ res[r].status = 200
                  /\ res[r].verificationResult = "Script error: Script does not export a verify function"
                  /\ ResolutionOf(res[r]) \in {"CommentedFail", "UpdateFailed"}
                  /\ calls[r][2].op = "getComments"
                  /\ calls[r][2].error = "" =>
                        /\ Mutations(r) = {3}
                        /\ calls[r][3].op \in {"addComment", "updateComment"}
                        /\ calls[r][3].body = req[r].commentPrefix \o " " \o res[r].verificationResult
                  /\ ResolutionOf(res[r]) = "CommentedFail" <=>
                        (Len(calls[r]) = 3 /\ calls[r][3].error = "")

\* The run of no-verify on PROJ-1 left a comment on the issue.
C11_Witness ==
    \E r \in Runs :
        /\ Resolved(r, "CommentedFail")
        /\ LacksVerify(r)
        /\ req[r].scriptId = "no-verify"
        /\ comments["PROJ-1"] =
              << [id |-> 1, body |-> "[Verification] Script error: Script does not export a verify function"] >>

\* The j-th smallest member of a set of positions.
Nth(S, j) == CHOOSE i \in S : Cardinality({x \in S : x <= i}) = j

\* The listing holds one entry per position of S in the directory, in the
\* directory's order.
ListsExactly(listing, S) ==
    /\ Len(listing) = Cardinality(S)
    /\ \A j \in 1..Len(listing) : listing[j].id = Basename(dir.names[Nth(S, j)])

\* The positions of the directory's .js files.
JsFiles == {i \in 1..Len(dir.names) : EndsWith(dir.names[i], ".js")}

\* This step is GET /scripts answering with a listing.
Lists == lpc = "readdir" /\ lpc' = "idle" /\ scriptsRes'.status = 200

C14_HotReload ==
    [][\A r \in Runs :
          pc[r] = "access" /\ pc'[r] # "access" /\ Exists(req[r].scriptId) =>
              LET now == files[req[r].scriptId] IN
              IF ~now.loads
              THEN /\ script'[r] = NotLoaded
                   /\ outcome'[r] = [t |-> "loadError", v |-> now.message]
              ELSE /\ script'[r] = now
                   /\ cache'[req[r].scriptId] = now
                   /\ pc'[r] = "verify" <=> now.hasVerify]_vars

\* A run executes revision 2 of the sample test after a listing and an
\* earlier run both loaded revision 1 in this process.
C14_Witness ==
    \E r \in Runs :
        /\ pc[r] = "verify"
        /\ req[r].scriptId = "sample-test"
        /\ script[r].rev = 2
        /\ [id |-> "sample-test", rev |-> 1, by |-> "run"] \in everLoaded
        /\ [id |-> "sample-test", rev |-> 1, by |-> "list"] \in everLoaded

\* Run r has answered, and the run before it was on the same issue with the
\* same check and tag, had the same verification result and the same
\* resolution, written to the issue, and (on a Pass) the same transition
\* listing.
SameAgain(r) ==
    /\ pc[r] = "done"
    /\ res[r].status = 200
    /\ before[r].res.status = 200
    /\ before[r].req = req[r]
    /\ before[r].res.verificationResult = res[r].verificationResult
    /\ ResolutionOf(before[r].res) = ResolutionOf(res[r])
    /\ ResolutionOf(res[r]) \in {"Closed", "CommentedPassNoTransition", "CommentedFail"}
    /\ before[r].transitions = transitions[r]

\* C15 as stated: a run that repeats the run before it, Pass or Fail, leaves
\* the issue's comments and status as they were after the first.
C15_RepeatLeavesIssue ==
    \A r \in Runs :
        SameAgain(r) =>
            /\ comments[req[r].issueKey] = before[r].comments
            /\ status[req[r].issueKey] = before[r].status

\* C15 amended: a run that repeats a Fail with the same reason leaves the
\* issue's comments and status as they were after the first; a run that
\* repeats a Pass leaves the status as it was and adds one more comment, the
\* closing comment or the comment that no close transition is available.
C15_RepeatedFailLeavesIssue ==
    \A r \in Runs :
        SameAgain(r) =>
            LET k == req[r].issueKey IN
            /\ status[k] = before[r].status
            /\ ResolutionOf(res[r]) = "CommentedFail" => comments[k] = before[r].comments
            /\ ResolutionOf(res[r]) = "Closed" =>
                  comments[k] = Append(before[r].comments,
                      [id |-> Len(before[r].comments) + 1,
                       body |-> req[r].commentPrefix \o " Verification passed. Issue auto-closed."])
            /\ ResolutionOf(res[r]) = "CommentedPassNoTransition" =>
                  comments[k] = Append(before[r].comments,
                      [id |-> Len(before[r].comments) + 1,
                       body |-> req[r].commentPrefix
                                  \o " Verification passed, but no close transition available."])

\* The second of two runs failing with "build failed" has answered and the
\* issue holds the one comment of the first.
C15_Witness ==
    \E r \in Runs :
        /\ SameAgain(r)
        /\ ResolutionOf(res[r]) = "CommentedFail"
        /\ calls[r][3].op = "updateComment"
        /\ comments[req[r].issueKey] = << [id |-> 1, body |-> "[Verification] build failed"] >>

\* The second of two passing runs has closed the issue again through the
\* same transition and left a second closing comment.
C15_PassRepeats ==
    \E r \in Runs :
        /\ SameAgain(r)
        /\ ResolutionOf(res[r]) = "Closed"
        /\ Len(comments[req[r].issueKey]) = 2

\* C16: a run invokes verify at most once and issues at most one mutating
\* call; no tracker call is issued twice and a call that threw is the last
\* call of the run; a run that answered after its read (the transition or
\* comment listing) succeeded issued exactly one mutating call, as its third.
C16_OneAttempt ==
    \A r \in Runs :
        /\ verifyCalls[r] <= 1
        /\ Cardinality(Mutations(r)) <= 1
        /\ Len(calls[r]) <= 3
        /\ \A i \in 1..Len(calls[r]) : calls[r][i].error # "" => i = Len(calls[r])
        /\ \A i, j \in 1..Len(calls[r]) : i # j => calls[r][i].op # calls[r][j].op
        /\ outcome[r].t \notin {"none", "noVerify", "loadError"} => verifyCalls[r] = 1
        /\ (pc[r] = "done" /\ Len(calls[r]) >= 2 /\ calls[r][2].error = "") =>
              /\ Mutations(r) = {3}
              /\ calls[r][2].op \in {"getTransitions", "getComments"}

\* A check threw, and the run's one write, adding the comment, threw as
\* well; the run has answered without a second attempt at either.
C16_Witness ==
    \E r \in Runs :
        /\ Resolved(r, "UpdateFailed")
        /\ outcome[r].t = "throwError"
        /\ verifyCalls[r] = 1
        /\ Len(calls[r]) = 3
        /\ calls[r][3].op = "addComment"
        /\ calls[r][3].error = "Network Error"

\* C17: a run on the Pass path never lists or edits comments (the client
\* has no call that deletes one): the comments the issue held when the
\* request arrived are all still there, unchanged and in place, when it
\* answers; and when it closes the issue, the issue is in the transition's
\* target status and holds exactly those comments and, after them, the new
\* closing comment.
C17_PassKeepsComments ==
    \A r \in Runs :
        isSuccess(verificationResult[r]) =>
            LET k == req[r].issueKey IN
            /\ \A i \in 1..Len(calls[r]) :
                  calls[r][i].op \in {"getIssue", "getTransitions", "transitionIssue", "addComment"}
            /\ (pc[r] = "done" /\ ~overlapped[k]) =>
                  /\ Len(comments[k]) >= Len(before[r].comments)
                  /\ \A i \in 1..Len(before[r].comments) : comments[k][i] = before[r].comments[i]
            /\ (Resolved(r, "Closed") /\ ~overlapped[k]) =>
                  /\ status[k] = closeTransition[r].to
                  /\ comments[k] = Append(before[r].comments,
                        [id |-> Len(before[r].comments) + 1,
                         body |-> req[r].commentPrefix \o " Verification passed. Issue auto-closed."])

\* Run 1 on PROJ-1 failed with "timeout", run 2 passed and closed the issue:
\* the fail comment is as run 1 wrote it, followed by the closing comment.
C17_Witness ==
    \E r \in Runs :
        /\ Resolved(r, "Closed")
        /\ req[r].issueKey = "PROJ-1"
        /\ [prefix |-> "[Verification]", resolution |-> "CommentedFail"] \in seen["PROJ-1"]
        /\ status["PROJ-1"] = "Closed"
        /\ comments["PROJ-1"] =
              << [id |-> 1, body |-> "[Verification] timeout"],
                 [id |-> 2, body |-> "[Verification] Verification passed. Issue auto-closed."] >>

\* C18: when GET /history answers, the issue's comments and status (and
\* every other issue's) are what they were; the one call it issued is the
\* comment listing; and a successful answer holds exactly the comments of
\* the listing whose body starts with the tag as given, in listing order,
\* with total their number.
C18_HistoryPureRead ==
    [][historyReq # NoHistoryReq /\ historyReq' = NoHistoryReq =>
        /\ comments' = comments
        /\ status' = status
        /\ Len(historyCalls') = Len(historyCalls) + 1
        /\ \A i \in 1..Len(historyCalls') : historyCalls'[i].op = "getComments"
        /\ historyRes'.status = 200 =>
              LET k == historyReq.issueKey
                  prefix == historyReq.commentPrefix
                  T == {i \in 1..Len(comments[k]) :
                          /\ Len(comments[k][i].body) >= Len(prefix)
                          /\ \A c \in 1..Len(prefix) :
                                SubSeq(comments[k][i].body, c, c) = SubSeq(prefix, c, c)}
              IN /\ historyRes'.issueKey = k
                 /\ historyRes'.total = Cardinality(T)
                 /\ Len(historyRes'.verificationComments) = Cardinality(T)
                 /\ \A j \in 1..Cardinality(T) :
                       /\ historyRes'.verificationComments[j].id = comments[k][Nth(T, j)].id
                       /\ historyRes'.verificationComments[j].body = comments[k][Nth(T, j)].body]_vars

\* After a Pass run without a close transition the history of PROJ-2 holds
\* the earlier fail comment and the run's comment, not the reporter's.
C18_Witness ==
    /\ historyRes.status = 200
    /\ historyRes.total = 2
    /\ historyRes.verificationComments[1] = [id |-> 2, body |-> "[Verification] timeout"]
    /\ historyRes.verificationComments[2].id = 3
    /\ Len(comments["PROJ-2"]) = 3
    /\ historyReq = NoHistoryReq

\* Run r got past the request-level checks: both fields given, the issue
\* found, the script file there.
PastRequestChecks(r) ==
    /\ req[r].issueKey # "" /\ req[r].scriptId # ""
    /\ Len(calls[r]) >= 1 /\ calls[r][1].error = ""
    /\ Exists(req[r].scriptId)

\* C19 as stated: a run that got past the request-level checks and has
\* answered sent a response that states the verification result and what
\* happened on the tracker.
C19_EveryRunStatesOutcome ==
    \A r \in Runs :
        pc[r] = "done" /\ PastRequestChecks(r) =>
            /\ res[r].status = 200
            /\ res[r].verificationResult = verificationResult[r]
            /\ verificationResult[r] # ""  \/ outcome[r] = [t |-> "return", v |-> ""]
            /\ ResolutionOf(res[r]) \in {"Closed", "CommentedPassNoTransition", "CommentedFail",
                                          "VerifiedNoUpdate", "UpdateFailed"}

\* The positions of a listing whose lower-cased name contains a keyword.
CloseCapable(listing) ==
    {i \in 1..Len(listing) :
        \E w \in {"close", "resolve", "done", "complete", "finish"} :
            \E at \in 1..Len(listing[i].name) :
                /\ at + Len(w) - 1 <= Len(listing[i].name)
                /\ ToLowerCase(SubSeq(listing[i].name, at, at + Len(w) - 1)) = w}

\* C20: for every listing, the transition selected is the one at the first
\* position, in the listing's own order, whose lower-cased name contains
\* one of close, resolve, done, complete, finish, and none is selected
\* exactly when no position is such.
C20_FirstCloseCapable ==
    \A r \in Runs :
        pc[r] = "found" =>
            LET M == CloseCapable(transitions[r]) IN
            /\ closeTransition[r] = NoTransition <=> M = {}
            /\ M # {} =>
                  /\ closeTransition[r] = transitions[r][Nth(M, 1)]
                  /\ closeTransition[r].id = ToString(Nth(M, 1))
                  /\ \A i \in M : i >= Nth(M, 1)

\* "Reclose - do not use" is listed before "Close Issue" and is selected.
C20_Witness ==
    \E r \in Runs :
        /\ pc[r] = "found"
        /\ Len(transitions[r]) = 3
        /\ transitions[r][1].name = "Start Progress"
        /\ transitions[r][2].name = "Reclose - do not use"
        /\ transitions[r][3].name = "Close Issue"
        /\ closeTransition[r] = [id |-> "2", name |-> "Reclose - do not use", to |-> "Closed"]

\* ---------------------------------------------------------------- C21

\* The fields a response to GET /settings may carry.
SafeFields == {"status", "jiraUrl", "username", "configured", "hasApiToken"}

\* The response GET /settings would send if the settings file held the
\* token t in place of its own.
ResponseWithToken(file, t) == SafeSettings(getSettings([file EXCEPT !.apiToken = encrypt(t)]))

\* C21: the API token is not exposed. Every write of the settings file
\* stores the submitted token in encrypted form only (the file's token is
\* not the submitted text and does not contain it, and it decrypts to it);
\* every response of GET /settings has exactly the fields jiraUrl, username,
\* configured and the boolean hasApiToken (beside its status), none of them
\* the token; and the response is the one any other non-empty token in the
\* file would have produced.
C21_TokenNotExposed ==
    [][ /\ settings' # settings =>
            /\ settings'.apiToken # saveBody.apiToken
            /\ ~Includes(settings'.apiToken, saveBody.apiToken)
            /\ getSettings(settings').apiToken = saveBody.apiToken
        /\ reads' # reads =>
            /\ DOMAIN settingsRes' = SafeFields
            /\ settingsRes'.hasApiToken = (settings.apiToken # "")
            /\ settingsRes'.jiraUrl = settings.jiraUrl
            /\ settingsRes'.username = settings.username
            /\ \A t \in Tokens : settingsRes'.jiraUrl # t /\ settingsRes'.username # t
            /\ settings.apiToken # "" =>
                   \A t \in Tokens : settingsRes' = ResponseWithToken(settings, t) ]_vars

\* C21 witness: a new token was saved for the stored tracker and GET
\* /settings then answered without it.
C21_Witness ==
    /\ settings = [jiraUrl |-> "https://jira.example.com", username |-> "bot",
                   apiToken |-> encrypt("token-2"), configured |-> TRUE]
    /\ written # << >>
    /\ settingsRes = [status |-> 200, jiraUrl |-> "https://jira.example.com",
                      username |-> "bot", configured |-> TRUE, hasApiToken |-> TRUE]

\* ---------------------------------------------------------------- C24

\* What a request is sent with under the settings st.
SentWith(st) == [url |-> StripSlash(st.jiraUrl) \o "/rest/api/2" \o Endpoint,
                 username |-> st.username, password |-> st.apiToken]

\* C24: saved settings take effect. A tracker request that started after a
\* POST /settings had answered with success is sent with the base URL and
\* the credentials of that save (or of a save written since).
C24_SavedSettingsTakeEffect ==
    \A c \in Callers :
        (sent[c] # NoSent /\ since[c] > 0) =>
            \E i \in since[c]..Len(written) : sent[c] = SentWith(written[i])

\* ---------------------------------------------------------------- C30

\* initialize's own test, spelled out: the settings read lack nothing.
Complete(st) == st.jiraUrl # "" /\ st.username # "" /\ st.apiToken # ""

\* C30: the lazy initialisation. A request whose initialize read settings
\* that lack the URL, the username or the token throws "Jira connection not
\* configured..." without handing anything to axios and without touching
\* the client (initialized, baseURL and auth stay as they are, so a client
\* that was uninitialised still is and the next request reads the settings
\* again); a request reads the settings exactly when it starts on an
\* uninitialised client; and only the reset of a settings save takes
\* initialized from true to false.
C30_LazyInitialisation ==
    [][ /\ \A c \in Callers :
            /\ (cpc[c] = "initialize" /\ cpc'[c] # "initialize" /\ ~Complete(got[c])) =>
                   /\ cerr'[c] = NotConfiguredMessage
                   /\ sent'[c] = NoSent
                   /\ cpc'[c] = "idle"
                   /\ initialized' = initialized /\ baseURL' = baseURL /\ auth' = auth
            /\ (cpc[c] = "idle" /\ cpc'[c] # "idle") =>
                   IF initialized
                   THEN cpc'[c] = "axios" /\ sent'[c] # NoSent /\ initialized'
                   ELSE cpc'[c] = "readFile" /\ sent'[c] = NoSent
        /\ (initialized /\ ~initialized') => (spc = "saved" /\ spc' = "idle") ]_vars

\* C30 witness: a request failed for want of a token and left the client
\* uninitialised, and the request after it read the settings again.
C30_Witness ==
    /\ settings = PartialSettings
    /\ ~initialized
    /\ cerr["c1"] = NotConfiguredMessage /\ cpc["c1"] = "idle" /\ sent["c1"] = NoSent
    /\ cpc["c2"] = "initialize" /\ got["c2"] = PartialSettings

\* ---------------------------------------------------------------- C22

\* The body carries the tag as its first characters, one by one.
TagAt(body, prefix) ==
    /\ Len(body) >= Len(prefix)
    /\ \A j \in 1..Len(prefix) : SubSeq(body, j, j) = SubSeq(prefix, j, j)

\* C22: Fail reconciliation. After a Fail resolution that completes (no
\* other run on the issue meanwhile), with the listing the issue had when
\* the run arrived: if some comment's body starts with the tag (exactly,
\* case-sensitively, whichever comment it is), the first such comment now
\* has the body tag + " " + reason, under its own id, and every other
\* comment is as it was; if none does, one comment with that body was
\* appended and the others are as they were. The status is as it was, and
\* the run neither listed transitions nor transitioned.
C22_FailReconciles ==
    \A r \in Runs :
        Resolved(r, "CommentedFail") /\ ~overlapped[req[r].issueKey] =>
            LET k == req[r].issueKey
                prefix == req[r].commentPrefix
                listing == before[r].comments
                reason == IF outcome[r].t = "return" THEN outcome[r].v
                          ELSE "Script error: " \o outcome[r].v
                text == prefix \o " " \o reason
                T == {i \in 1..Len(listing) : TagAt(listing[i].body, prefix)}
            IN /\ IF T = {}
                  THEN comments[k] = Append(listing, [id |-> Len(listing) + 1, body |-> text])
                  ELSE /\ Len(comments[k]) = Len(listing)
                       /\ \A i \in 1..Len(listing) :
                             comments[k][i] =
                                 IF i \in T /\ \A j \in T : i <= j
                                 THEN [id |-> listing[i].id, body |-> text]
                                 ELSE listing[i]
               /\ status[k] = before[r].status
               /\ \A i \in 1..Len(calls[r]) :
                     calls[r][i].op \notin {"getTransitions", "transitionIssue"}

\* C22 witness: a Fail run edited the third of five comments, the first
\* that starts with the tag, past one in another case and one that only
\* contains the tag, and left the later tagged comment alone.
C22_Witness ==
    /\ Resolved("r1", "CommentedFail")
    /\ req["r1"].issueKey = "PROJ-2"
    /\ req["r1"].commentPrefix = DefaultPrefix
    /\ comments["PROJ-2"] =
           << [id |-> 1, body |-> "[verification] draft"],
              [id |-> 2, body |-> "see [Verification] below"],
              [id |-> 3, body |-> "[Verification] Script error: boom"],
              [id |-> 4, body |-> "please fix"],
              [id |-> 5, body |-> "[Verification] flaky"] >>

\* ---------------------------------------------------------------- C23

\* Where run r is in the order of its steps.
Ordered(r) ==
    /\ (script[r] # NotLoaded \/ outcome[r] # NoOutcome \/ verifyCalls[r] > 0) =>
           /\ Len(calls[r]) >= 1
           /\ calls[r][1].op = "getIssue" /\ calls[r][1].error = ""
    /\ pc[r] = "verify" =>
           /\ res[r] = NoResponse
           /\ Len(calls[r]) = 1
           /\ Mutations(r) = {}
    /\ Len(calls[r]) >= 2 =>
           /\ outcome[r] # NoOutcome
           /\ pc[r] # "verify"
           /\ calls[r][2].op \in {"getTransitions", "getComments"}
    /\ \A i \in Mutations(r) :
           /\ i = 3
           /\ calls[r][2].error = ""
    /\ Len(calls[r]) <= 3

\* C23: the order within a run. The issue lookup has returned before the
\* check is loaded; while the check executes there is no response, no
\* resolution step and no mutating call; the resolution's read comes before
\* its write and has returned when the write is issued; and a run leaves
\* the execution of its check only because the check settled (returned or
\* threw), never by a timeout.
C23_OrderWithinRun ==
    [][ \A r \in Runs :
            /\ Ordered(r)'
            /\ (pc[r] = "verify" /\ pc'[r] # "verify") =>
                   /\ outcome[r] = NoOutcome
                   /\ outcome'[r].t \in {"return", "throwError", "throwString", "throwNull"} ]_vars

\* C23 witness: a run looked the issue up, executed its check once, listed
\* the transitions and closed the issue.
C23_Witness ==
    /\ Resolved("r1", "Closed")
    /\ verifyCalls["r1"] = 1
    /\ Len(calls["r1"]) = 3
    /\ calls["r1"][2].op = "getTransitions"
    /\ calls["r1"][3].op = "transitionIssue"

\* ---------------------------------------------------------------- C27

\* C27: a failed issue lookup. Whatever made getIssue throw (the issue is
\* absent, the tracker did not answer, the client is not configured), the
\* run has answered 404 "Issue not found: " and the message, getIssue is
\* the only tracker call it made, and it neither loaded nor executed a
\* check.
C27_LookupFailureIsNotFound ==
    \A r \in Runs :
        (Len(calls[r]) >= 1 /\ calls[r][1].error # "") =>
            /\ calls[r][1].op = "getIssue"
            /\ calls[r][1].error \in
                   {"Issue Does Not Exist", "Network Error", NotConfiguredMessage}
            /\ pc[r] = "done"
            /\ res[r] = [status |-> 404, error |-> "Issue not found: " \o calls[r][1].error]
            /\ Len(calls[r]) = 1
            /\ script[r] = NotLoaded
            /\ verifyCalls[r] = 0
            /\ outcome[r] = NoOutcome

\* C27 witness: a run on an existing issue was answered 404 because the
\* client is not configured.
C27_Witness ==
    /\ pc["r1"] = "done"
    /\ req["r1"].issueKey = "PROJ-1"
    /\ calls["r1"] = << Call("getIssue", "PROJ-1", "", 0, "", NotConfiguredMessage) >>
    /\ res["r1"].status = 404

\* ---------------------------------------------------------------- C28

\* C28: the flags of the response of a run that got past the request-level
\* checks. success is false exactly when the check did not pass and a
\* tracker call of the resolution threw; a Fail whose comment was written
\* has success true and action "commented"; a Pass one of whose tracker
\* calls threw has success true and action "verified"; and a transition
\* name is present exactly in the responses whose action is "closed".
C28_ResponseFlags ==
    \A r \in Runs :
        pc[r] = "done" /\ PastRequestChecks(r) =>
            LET pass == outcome[r].t = "return" /\ outcome[r].v \in {"ok", "OK"}
                threw == \E i \in 2..Len(calls[r]) : calls[r][i].error # ""
                wrote == \E i \in Mutations(r) : calls[r][i].error = ""
                has(field) == field \in DOMAIN res[r]
            IN /\ (has("success") /\ ~res[r].success) <=> (~pass /\ threw)
               /\ (~pass /\ wrote) =>
                      has("success") /\ res[r].success
                      /\ has("action") /\ res[r].action = "commented"
               /\ (pass /\ threw) =>
                      has("success") /\ res[r].success
                      /\ has("action") /\ res[r].action = "verified"
               /\ has("transition") <=> (has("action") /\ res[r].action = "closed")

\* C28 witness: a Fail whose comment could not be written was answered
\* with success false and no action.
C28_Witness ==
    /\ pc["r1"] = "done"
    /\ outcome["r1"] = [t |-> "return", v |-> "timeout"]
    /\ Len(calls["r1"]) = 3 /\ calls["r1"][3].error = "Network Error"
    /\ res["r1"].status = 200 /\ ~res["r1"].success
    /\ "action" \notin DOMAIN res["r1"]

\* ---------------------------------------------------------------- C29

\* The text of a cell without the blanks around it ("" for a blank cell).
Core(cell) ==
    LET inked == {i \in 1..Len(cell) : SubSeq(cell, i, i) # " "} IN
    IF inked = {} THEN ""
    ELSE SubSeq(cell, CHOOSE i \in inked : \A j \in inked : i <= j,
                      CHOOSE i \in inked : \A j \in inked : j <= i)

\* A text of the form YYYY-MM-DD.
DateForm(text) ==
    /\ Len(text) = 10
    /\ \A i \in 1..10 :
          IF i \in {5, 8} THEN SubSeq(text, i, i) = "-"
          ELSE \E d \in 0..9 : SubSeq(text, i, i) = ToString(d)

\* A CSV row is in error: no non-empty summary, or a non-empty due date
\* that is not of the form YYYY-MM-DD.
RowInError(row) ==
    \/ Core(row.summary) = ""
    \/ Core(row.dueDate) # "" /\ ~DateForm(Core(row.dueDate))

\* C29: processIssueCSVData. The result has one processed row per CSV row,
\* numbered from 1 in the file's order; a row has errors exactly when it
\* has no non-empty summary or its non-empty due date is not YYYY-MM-DD,
\* the errors list names exactly those rows, and the result is valid
\* exactly when there is none; a non-empty cell is the row's value (over
\* the template's default), an empty or blank cell leaves the template's
\* default, or nothing without a template; and the summary is the cell's
\* and never the template's.
C29_ProcessedRows ==
    processed # NoProcessed =>
        LET csvData == upload.rows
            failing == {i \in 1..Len(csvData) : RowInError(csvData[i])} IN
        /\ Len(processed.data) = Len(csvData)
        /\ \A i \in 1..Len(csvData) :
              LET row == csvData[i]
                  out == processed.data[i] IN
              /\ out.rowNumber = i
              /\ (Len(out.errors) > 0) <=> (i \in failing)
              /\ IF Core(row.summary) # ""
                 THEN out.data["summary"] = Core(row.summary)
                 ELSE "summary" \notin DOMAIN out.data
              /\ IF Core(row.project) # "" THEN out.data["project"] = Core(row.project)
                 ELSE IF template # NoTemplate THEN out.data["project"] = template.project
                 ELSE "project" \notin DOMAIN out.data
              /\ IF Core(row.dueDate) # "" /\ DateForm(Core(row.dueDate))
                 THEN out.data["dueDate"] = Core(row.dueDate)
                 ELSE "dueDate" \notin DOMAIN out.data
              /\ IF template # NoTemplate
                 THEN /\ out.data["issueType"] =
                             (IF template.issueType # "" THEN template.issueType ELSE "Task")
                      /\ out.data["priority"] =
                             (IF template.priority # "" THEN template.priority ELSE "Medium")
                      /\ out.data["labels"] = template.labels
                      /\ out.data["description"] = template.description
                      /\ out.data["assignee"] = template.assignee
                 ELSE DOMAIN out.data \subseteq {"summary", "project", "dueDate"}
        /\ Len(processed.errors) = Cardinality(failing)
        /\ \A j \in 1..Len(processed.errors) :
              /\ processed.errors[j].row \in failing
              /\ processed.errors[j].errors = processed.data[processed.errors[j].row].errors
              /\ \A h \in 1..(j - 1) : processed.errors[h].row < processed.errors[j].row
        /\ processed.valid <=> (failing = {})

\* C29 witness: a file of two rows under the bug-report template, the
\* first with a summary, a padded date and a project of its own, the second
\* blank but for a date in another form.
C29_Witness ==
    /\ processed # NoProcessed
    /\ template.id = "bug-report"
    /\ upload.rows = << [summary |-> "Fix login ", dueDate |-> " 2024-01-15", project |-> "OPS"],
                        [summary |-> " ", dueDate |-> "15/01/2024", project |-> ""] >>
    /\ processed.data[1].data["summary"] = "Fix login"
    /\ processed.data[1].errors = << >>
    /\ Len(processed.data[2].errors) = 2
    /\ ~processed.valid

\* ---------------------------------------------------------------- C25

\* C25: bulk creation is all-or-nothing on validation. When at least one
\* row of the parsed file is in error, the request has been answered 400
\* "CSV validation failed" with the failing rows listed, createIssue was
\* not called for any row and nothing was recorded as created or failed;
\* and in no request does the loop reach its skip of a row with errors
\* (the errors it records are those of createIssue).
C25_AllOrNothing ==
    /\ (processed # NoProcessed /\ \E i \in 1..Len(upload.rows) : RowInError(upload.rows[i])) =>
           /\ bpc = "idle"
           /\ bulkRes.status = 400
           /\ bulkRes.error = "CSV validation failed"
           /\ Len(bulkRes.errors) =
                  Cardinality({i \in 1..Len(upload.rows) : RowInError(upload.rows[i])})
           /\ \A j \in 1..Len(bulkRes.errors) :
                  /\ RowInError(upload.rows[bulkRes.errors[j].row])
                  /\ \A h \in 1..(j - 1) : bulkRes.errors[h].row # bulkRes.errors[j].row
           /\ submitted = << >>
           /\ results = << >>
           /\ errors = << >>
    /\ \A j \in 1..Len(errors) : DOMAIN errors[j] = {"row", "error"}

\* C25 witness: a file whose first row is fine and whose second has no
\* summary was rejected as a whole.
C25_Witness ==
    /\ bpc = "idle"
    /\ upload.rows = << [summary |-> "Fix login ", dueDate |-> "", project |-> "OPS"],
                        [summary |-> "", dueDate |-> "", project |-> "OPS"] >>
    /\ bulkRes.status = 400
    /\ bulkRes.error = "CSV validation failed"
    /\ bulkRes.errors = << [row |-> 2, errors |-> << "Summary is required" >>] >>
    /\ submitted = << >>

\* ---------------------------------------------------------------- C26

\* The entries of a list of the response that name row i.
Naming(list, i) == {j \in 1..Len(list) : list[j].row = i}

\* C26: bulk creation isolates the failure of a row. createIssue is called
\* for the rows in the file's order, one after the other (the calls so far
\* are those of rows 1, 2, ... and at most one more is pending); and when
\* the loop has answered, every row was submitted, a row whose create threw
\* is in errors under its number with the message, a row whose create
\* returned is in created, every row is in exactly one of the two, and
\* successful + failed = total = the number of rows.
C26_RowFailuresIsolated ==
    /\ \A j \in 1..Len(submitted) : submitted[j].row = j
    /\ bpc \in {"createIssue", "delay"} => cursor \in {Len(submitted), Len(submitted) + 1}
    /\ (bpc = "idle" /\ bulkRes.status = 200) =>
           LET out == bulkRes.results
               n == Len(upload.rows) IN
           /\ Len(submitted) = n
           /\ \A i \in 1..n :
                  /\ Cardinality(Naming(out.created, i)) + Cardinality(Naming(out.errors, i)) = 1
                  /\ IF submitted[i].error # ""
                     THEN \E j \in Naming(out.errors, i) : out.errors[j].error = submitted[i].error
                     ELSE \E j \in Naming(out.created, i) :
                              out.created[j].issue.summary = Core(upload.rows[i].summary)
           /\ out.total = n
           /\ out.successful = Len(out.created)
           /\ out.failed = Len(out.errors)
           /\ out.successful + out.failed = out.total

\* C26 witness: of two rows the first was refused by the tracker and the
\* second was created all the same.
C26_Witness ==
    /\ bpc = "idle"
    /\ bulkRes.status = 200
    /\ Len(submitted) = 2
    /\ submitted[1].error = "Network Error"
    /\ submitted[2].error = ""
    /\ bulkRes.results.successful = 1
    /\ bulkRes.results.failed = 1
    /\ bulkRes.results.errors = << [row |-> 1, error |-> "Network Error"] >>
====
